---- MODULE Spec2Model ----
(***************************************************************************)
(* Model of the cloud price comparison repository: the best-fit matchers   *)
(* of docs/ui/matchers.js and docs/script.js, the cheapest-row             *)
(* deduplicator of scripts/lib/common.js and the fetch / aggregate         *)
(* pipeline of scripts/providers and scripts/aggregate.                    *)
(*                                                                         *)
(* Strings the code inspects (toLowerCase, startsWith, includes, regular   *)
(* expressions) are sequences of one-character strings.  A missing string  *)
(* field is the empty sequence: every use in the code reads such a field   *)
(* through `|| ""`, String(... || "") or filter(Boolean).                  *)
(***************************************************************************)
EXTENDS Integers, Sequences, FiniteSets, TLC

(* ------------------------------------------------------------------ *)
(* JavaScript values                                                   *)
(* ------------------------------------------------------------------ *)

\* null and undefined in a numeric field (vcpu, ram); numbers are >= 0
NULL == 0 - 1
UNDEF == 0 - 2
\* Infinity: larger than every score and price of the model
Infinity == 1000000

\* global isFinite(v): coerces with Number(v), so null is finite (0) and
\* undefined (NaN) is not
IsFinite(v) == v # UNDEF

\* Number(v) for a finite v
Num(v) == IF v = NULL THEN 0 ELSE v

\* a ?? b
Coalesce(a, b) == IF a \in {NULL, UNDEF} THEN b ELSE a

\* a JavaScript value that is a string, null or undefined
Str(s) == [t |-> "str", s |-> s]
JsNull == [t |-> "null"]
JsUndefined == [t |-> "undefined"]
IsStr(v) == v.t = "str"
Truthy(v) == IsStr(v) /\ v.s # <<>>
\* String(v)
StringOf(v) ==
  IF IsStr(v) THEN v.s
  ELSE IF v.t = "null" THEN <<"n","u","l","l">> ELSE <<"u","n","d","e","f","i","n","e","d">>

Abs(n) == IF n < 0 THEN 0 - n ELSE n

(* ------------------------------------------------------------------ *)
(* Strings                                                             *)
(* ------------------------------------------------------------------ *)

UpperChars == <<"A","B","C","D","E","F","G","H","I","J","K","L","M",
                "N","O","P","Q","R","S","T","U","V","W","X","Y","Z">>
LowerChars == <<"a","b","c","d","e","f","g","h","i","j","k","l","m",
                "n","o","p","q","r","s","t","u","v","w","x","y","z">>
DigitChars == <<"0","1","2","3","4","5","6","7","8","9">>

Letters == 1..26
DigitSet == {DigitChars[i] : i \in 1..10}
IsUpper(c) == \E i \in Letters : UpperChars[i] = c
IsLower(c) == \E i \in Letters : LowerChars[i] = c
IsDigit(c) == \E i \in 1..10 : DigitChars[i] = c

\* the case mappings of the 26 letters, as lookup tables
LowerOf == [c \in {UpperChars[i] : i \in Letters} |->
              LowerChars[CHOOSE i \in Letters : UpperChars[i] = c]]
UpperOf == [c \in {LowerChars[i] : i \in Letters} |->
              UpperChars[CHOOSE i \in Letters : LowerChars[i] = c]]
LowerChar(c) == IF c \in DOMAIN LowerOf THEN LowerOf[c] ELSE c
UpperChar(c) == IF c \in DOMAIN UpperOf THEN UpperOf[c] ELSE c

\* String.prototype.toLowerCase / toUpperCase
ToLower(s) == [i \in 1..Len(s) |-> LowerChar(s[i])]
ToUpper(s) == [i \in 1..Len(s) |-> UpperChar(s[i])]

\* String.prototype.startsWith / includes
MatchAt(s, p, i) ==
  i + Len(p) - 1 <= Len(s) /\ \A j \in 1..Len(p) : s[i + j - 1] = p[j]
StartsWith(s, p) == MatchAt(s, p, 1)
Includes(s, p) ==
  \E i \in 1..(Len(s) - Len(p) + 1) : \A j \in 1..Len(p) : s[i + j - 1] = p[j]

\* the value of a run of decimal digits, Number("16") = 16
RECURSIVE DigitsValue(_)
DigitsValue(d) ==
  IF d = <<>> THEN 0
  ELSE 10 * DigitsValue(SubSeq(d, 1, Len(d) - 1))
       + (CHOOSE i \in 1..10 : DigitChars[i] = d[Len(d)]) - 1

\* end (exclusive) of the longest run of letters / of digits of s from i
RECURSIVE LetterRunEnd(_, _)
LetterRunEnd(s, i) ==
  IF i <= Len(s) /\ LowerChar(s[i]) \in DOMAIN UpperOf THEN LetterRunEnd(s, i + 1) ELSE i
RECURSIVE DigitRunEnd(_, _)
DigitRunEnd(s, i) ==
  IF i <= Len(s) /\ s[i] \in DigitSet THEN DigitRunEnd(s, i + 1) ELSE i

\* Array.prototype.join(" ") over the truthy strings of parts
RECURSIVE JoinTruthy(_)
JoinTruthy(parts) ==
  IF parts = <<>> THEN <<>>
  ELSE LET rest == JoinTruthy(Tail(parts))
       IN  IF Head(parts) = <<>> THEN rest
           ELSE IF rest = <<>> THEN Head(parts)
           ELSE Head(parts) \o <<" ">> \o rest

sLinux == <<"L","i","n","u","x">>
sWindows == <<"W","i","n","d","o","w","s">>
sUnknown == <<"U","n","k","n","o","w","n">>
sGeneral == <<"g","e","n","e","r","a","l">>
sCompute == <<"c","o","m","p","u","t","e">>
sMemory == <<"m","e","m","o","r","y">>
sStandard == <<"s","t","a","n","d","a","r","d","_">>

(* ------------------------------------------------------------------ *)
(* docs/ui/matchers.js                                                 *)
(* ------------------------------------------------------------------ *)

sWin == <<"w","i","n">>
sLinuxLower == <<"l","i","n","u","x">>
sWindowsLower == <<"w","i","n","d","o","w","s">>
sOnDemand == <<"o","n","d","e","m","a","n","d">>
sShared == <<"s","h","a","r","e","d">>
sLowPriority == <<"l","o","w"," ","p","r","i","o","r","i","t","y">>
sSpot == <<"s","p","o","t">>
sSavingsPlan == <<"s","a","v","i","n","g","s"," ","p","l","a","n">>
sReserved == <<"r","e","s","e","r","v","e","d">>

normalizeOs(val) ==
  IF StartsWith(ToLower(val), sWin) THEN sWindowsLower ELSE sLinuxLower

\* (!v || v === want) on a lower-cased field
OkOrAbsent(v, want) == v = <<>> \/ v = want

\* looksSpot, on the lower-cased blob
LooksSpot(blob) ==
  \/ Includes(blob, sLowPriority)
  \/ Includes(blob, sSpot)
  \/ Includes(blob, sSavingsPlan)
  \/ Includes(blob, sReserved)

isOnDemandShared(x) ==
  /\ OkOrAbsent(ToLower(x.billingModel), sOnDemand)
  /\ OkOrAbsent(ToLower(x.tenancyType), sShared)
  /\ ~LooksSpot(ToLower(JoinTruthy(<<x.productName, x.skuName, x.meterName, x.instance>>)))

\* the first character of a string, "" for the empty string (s[0] undefined)
FirstChar(s) == IF s = <<>> THEN "" ELSE s[1]

\* the family rule on a leading letter: the letters of general, compute, memory
LetterInFamily(first, family, general, compute, memory) ==
  IF family = sGeneral THEN first \in general
  ELSE IF family = sCompute THEN first \in compute
  ELSE IF family = sMemory THEN first \in memory
  ELSE TRUE

\* /^[mt]/, /^c/, /^[rxz]/ on the lower-cased instance type
isAwsInFamily(inst, family) ==
  IF family = <<>> THEN TRUE
  ELSE LetterInFamily(FirstChar(ToLower(inst)), family, {"m", "t"}, {"c"}, {"r", "x", "z"})

MinOf(S) == CHOOSE i \in S : \A j \in S : i <= j

\* the positions where /standard_([a-z]+)/ matches in the lower-cased n
StandardHits(n) ==
  {i \in 1..Len(n) : /\ MatchAt(n, sStandard, i)
                     /\ i + 9 <= Len(n)
                     /\ n[i + 9] \in DOMAIN UpperOf}

\* m?.[1]?.[0] || n[0] || null, "" for null
AzureFirst(n, hits) ==
  IF hits # {} THEN n[MinOf(hits) + 9] ELSE FirstChar(n)

AzureLetterInFamily(first, family) ==
  IF first = "" THEN TRUE
  ELSE LetterInFamily(first, family, {"d", "b"}, {"f"}, {"e", "m"})

isAzureInFamily(inst, family) ==
  IF family = <<>> THEN TRUE
  ELSE AzureLetterInFamily(AzureFirst(ToLower(inst), StandardHits(ToLower(inst))), family)

\* the branch `if (cat)` of azureFamilyMatch and gcpFamilyMatch
CategoryMatch(cat, fam) ==
  IF fam \in {sGeneral, sCompute, sMemory} THEN cat = fam ELSE TRUE

azureFamilyMatch(row, family) ==
  IF family = <<>> THEN TRUE
  ELSE IF row.category # <<>> THEN CategoryMatch(ToLower(row.category), ToLower(family))
  ELSE isAzureInFamily(row.instance, family)

distance(a, b) ==
  IF ~IsFinite(a) \/ ~IsFinite(b) THEN 1000 ELSE Abs(Num(a) - Num(b))

\* the digits at `from`, as a number
DigitsAt(n, from) == DigitsValue(SubSeq(n, from, DigitRunEnd(n, from) - 1))

\* /standard_[a-z]+(\d+)[a-z]*/i matches at i: letters, then at least a digit
StdCoreAt(n, i, lettersEnd) ==
  /\ MatchAt(n, sStandard, i)
  /\ lettersEnd > i + 9
  /\ lettersEnd <= Len(n)
  /\ n[lettersEnd] \in DigitSet

\* /[a-z]+(\d+)-/i matches at i: letters, digits, then "-"
DashCoreAt(n, i, lettersEnd, digitsEnd) ==
  /\ lettersEnd > i
  /\ digitsEnd > lettersEnd
  /\ digitsEnd <= Len(n)
  /\ n[digitsEnd] = "-"

StdCoreHits(n) ==
  {i \in 1..Len(n) : StdCoreAt(n, i, LetterRunEnd(n, i + 9))}
DashCoreHits(n) ==
  {i \in 1..Len(n) :
     DashCoreAt(n, i, LetterRunEnd(n, i), DigitRunEnd(n, LetterRunEnd(n, i)))}

\* coreMatch ? Number(coreMatch[1]) : null
CoreCount(n, std, dash) ==
  IF std # {} THEN DigitsAt(n, LetterRunEnd(n, MinOf(std) + 9))
  ELSE IF dash # {} THEN DigitsAt(n, LetterRunEnd(n, MinOf(dash)))
  ELSE NULL

\* familyRamPerCore, for the lower-cased name
RamPerCore(n) ==
  IF StartsWith(n, sStandard \o <<"d">>) THEN 4
  ELSE IF StartsWith(n, sStandard \o <<"f">>) THEN 2
  ELSE IF StartsWith(n, sStandard \o <<"e">>) THEN 8
  ELSE IF StartsWith(n, sStandard \o <<"b">>) THEN 4
  ELSE IF StartsWith(n, sStandard \o <<"m">>) THEN 16
  ELSE NULL

\* variant that gives up both numbers when the family has no ratio
InferredSpecsTogether(vcpu, perCore) ==
  IF vcpu \notin {NULL, 0} /\ perCore # NULL
  THEN [vcpu |-> vcpu, ram |-> vcpu * perCore]
  ELSE [vcpu |-> NULL, ram |-> NULL]

\* { vcpu, ram } with ram = (vcpu && familyRamPerCore) ? vcpu * familyRamPerCore : null
InferredSpecs(vcpu, perCore) ==
  [vcpu |-> vcpu,
   ram |-> IF vcpu \notin {NULL, 0} /\ perCore # NULL THEN vcpu * perCore ELSE NULL]

inferAzureCoresRamFromName(name) ==
  IF name = <<>> THEN [vcpu |-> NULL, ram |-> NULL]
  ELSE InferredSpecs(CoreCount(ToLower(name), StdCoreHits(ToLower(name)),
                               DashCoreHits(ToLower(name))),
                     RamPerCore(ToLower(name)))

\* name.startsWith(...) for some prefix of the list
StartsWithAny(name, prefixes) == \E p \in prefixes : StartsWith(name, p)

isGcpInFamily(inst, family) ==
  IF family = <<>> THEN TRUE
  ELSE IF inst = <<>> THEN TRUE
  ELSE IF family = sMemory
       THEN StartsWithAny(ToUpper(inst), {<<"M","1">>, <<"M","2">>, <<"M","3">>, <<"M","4">>})
  ELSE IF family = sCompute
       THEN StartsWithAny(ToUpper(inst),
              {<<"C","2">>, <<"C","2","D">>, <<"H","3">>, <<"H","4","D">>})
  ELSE IF family = sGeneral
       THEN StartsWithAny(ToUpper(inst),
              {<<"C","3">>, <<"C","3","D">>, <<"C","4">>, <<"C","4","A">>, <<"C","4","D">>,
               <<"E","2">>, <<"N","1">>, <<"N","2">>, <<"N","2","D">>,
               <<"N","4">>, <<"N","4","A">>, <<"N","4","D">>,
               <<"T","2","A">>, <<"T","2","D">>})
  ELSE TRUE

gcpFamilyMatch(row, family) ==
  IF family = <<>> THEN TRUE
  ELSE IF row.category # <<>> THEN CategoryMatch(ToLower(row.category), ToLower(family))
  ELSE isGcpInFamily(row.instance, family)

(* ------------------------------------------------------------------ *)
(* The finders.  A call returns                                        *)
(*   [ok |-> FALSE, err |-> "empty" | "no-entries", list |-> list]     *)
(*   [ok |-> TRUE, idx |-> position in list of the chosen record,      *)
(*    rec |-> the object returned, list |-> the list after the call,   *)
(*    pre |-> the positions of the candidate set that was scored]      *)
(* ------------------------------------------------------------------ *)

\* the test of the selection loop (matchers.js 177, 235; script.js 75):
\* score < bestScore || (score === bestScore && tieBreaker < bestPrice)
\* variant of the selection test without the price tie-break
isBetterNoTie(score, tieBreaker, bestScore, bestPrice) == score < bestScore

isBetter(score, tieBreaker, bestScore, bestPrice) ==
  score < bestScore \/ (score = bestScore /\ tieBreaker < bestPrice)

\* best?.pricePerHourUSD ?? Infinity, best = 0 for null
BestPrice(e, best) ==
  IF best = 0 THEN Infinity ELSE Coalesce(e[best].price, Infinity)

\* the loop `for (const x of ...)` over the candidates e[k] with e[k].on,
\* from position k with the current best (0 for null) and bestScore
RECURSIVE ScanBest(_, _, _, _)
ScanBest(e, k, best, bestScore) ==
  IF k > Len(e) THEN best
  ELSE IF e[k].on /\ isBetter(e[k].score, e[k].tie, bestScore, BestPrice(e, best))
       THEN ScanBest(e, k + 1, k, e[k].score)
       ELSE ScanBest(e, k + 1, best, bestScore)

Thrown(err, list) == [ok |-> FALSE, err |-> err, list |-> list]

\* `return best` of findBestAws and findBestGcp: the list's own object
Found(list, pre, best) ==
  [ok |-> TRUE, idx |-> best, rec |-> list[best], list |-> list, pre |-> pre]

\* variant of the AWS filter without the OS test
AwsFilteredAnyOs(list, wantOS, family) ==
  {i \in DOMAIN list :
     /\ isOnDemandShared(list[i])
     /\ IsFinite(list[i].vcpu)
     /\ IsFinite(list[i].ram)
     /\ IsFinite(list[i].pricePerHourUSD)
     /\ isAwsInFamily(list[i].instance, family)}

AwsFiltered(list, wantOS, family) ==
  {i \in DOMAIN list :
     /\ isOnDemandShared(list[i])
     /\ IsFinite(list[i].vcpu)
     /\ IsFinite(list[i].ram)
     /\ IsFinite(list[i].pricePerHourUSD)
     /\ (wantOS = <<>> \/ normalizeOs(list[i].os) = wantOS)
     /\ isAwsInFamily(list[i].instance, family)}

AwsEntries(list, filtered, vcpu, ram) ==
  [i \in DOMAIN list |->
     [on |-> i \in filtered,
      score |-> distance(list[i].vcpu, vcpu) + distance(list[i].ram, ram),
      tie |-> Num(list[i].pricePerHourUSD),
      price |-> list[i].pricePerHourUSD]]

AwsPick(list, filtered, vcpu, ram) ==
  IF filtered = {} THEN Thrown("no-entries", list)
  ELSE Found(list, filtered, ScanBest(AwsEntries(list, filtered, vcpu, ram), 1, 0, Infinity))

findBestAws(list, vcpu, ram, os, family) ==
  IF list = <<>> THEN Thrown("empty", list)
  ELSE AwsPick(list, AwsFiltered(list, ToLower(os), family), vcpu, ram)

\* the OS test shared by filters 1 and 2 of findBestAzure
\* variant of the OS test that takes the requested OS only
AzureOsMatchExact(x, wantOS) == normalizeOs(x.os) = wantOS

AzureOsMatch(x, wantOS) == normalizeOs(x.os) = wantOS \/ x.os = sUnknown

AzureStrict(list, os, family) ==
  {i \in DOMAIN list : /\ isOnDemandShared(list[i])
                       /\ azureFamilyMatch(list[i], family)
                       /\ AzureOsMatch(list[i], ToLower(os))}

AzureNoFamily(list, os) ==
  {i \in DOMAIN list : /\ isOnDemandShared(list[i])
                       /\ AzureOsMatch(list[i], ToLower(os))}

AzureNoOs(list, family) ==
  {i \in DOMAIN list : /\ isOnDemandShared(list[i])
                       /\ azureFamilyMatch(list[i], family)}

\* variant of step 2 that never retries
AzureStep2Skipped(list, os, family, pre) == pre

\* step 2: `if (pre.length === 0 && family)` retry without the family
AzureStep2(list, os, family, pre) ==
  IF pre = {} /\ family # <<>> THEN AzureNoFamily(list, os) ELSE pre

\* variant of step 3 without the `pre.length === 0` guard
AzureStep3Always(list, family, pre) == AzureNoOs(list, family)

\* step 3: `if (pre.length === 0)` retry ignoring the OS
AzureStep3(list, family, pre) ==
  IF pre = {} THEN AzureNoOs(list, family) ELSE pre

\* `pre` after the three filter steps
AzurePre(list, os, family) ==
  AzureStep3(list, family, AzureStep2(list, os, family, AzureStrict(list, os, family)))

\* { ...x, vcpu: x.vcpu ?? meta.vcpu, ram: x.ram ?? meta.ram }
AzureCompleted(x, meta) ==
  [x EXCEPT !.vcpu = Coalesce(x.vcpu, meta.vcpu), !.ram = Coalesce(x.ram, meta.ram)]

\* variant that leaves every record as the list holds it
AzureEnrichNone(x) == x

\* pre.map(...): the record itself when both specs are finite, else a copy
\* completed from the name
AzureEnrich(x) ==
  IF IsFinite(x.vcpu) /\ IsFinite(x.ram) THEN x
  ELSE AzureCompleted(x, inferAzureCoresRamFromName(x.instance))

\* variant of the score with the OS penalty on the wrong side
AzureScore2Inverted(x, vcpu, ram) ==
  2 * (IF IsFinite(x.vcpu) /\ IsFinite(x.ram)
       THEN distance(x.vcpu, vcpu) + distance(x.ram, ram)
       ELSE 9999)
  + (IF x.os # sUnknown THEN 1 ELSE 0)

\* the score of the scan, doubled so that the 0.5 of an Unknown OS is 1
AzureScore2(x, vcpu, ram) ==
  2 * (IF IsFinite(x.vcpu) /\ IsFinite(x.ram)
       THEN distance(x.vcpu, vcpu) + distance(x.ram, ram)
       ELSE 9999)
  + (IF x.os = sUnknown THEN 1 ELSE 0)

AzureEntries(enriched, pre, vcpu, ram) ==
  [i \in DOMAIN enriched |->
     [on |-> i \in pre,
      score |-> AzureScore2(enriched[i], vcpu, ram),
      tie |-> Coalesce(enriched[i].pricePerHourUSD, Infinity),
      price |-> enriched[i].pricePerHourUSD]]

\* `if (best) best.os = os; return best`: best is the list's own object
\* unless the map copied it, and then the copy alone is written
AzureReturn(list, pre, best, ret) ==
  [ok |-> TRUE, idx |-> best, rec |-> ret,
   list |-> IF IsFinite(list[best].vcpu) /\ IsFinite(list[best].ram)
            THEN [list EXCEPT ![best] = ret] ELSE list,
   pre |-> pre]

AzureBest(list, pre, enriched, best, os) ==
  AzureReturn(list, pre, best, [enriched[best] EXCEPT !.os = os])

AzureScan(list, pre, enriched, vcpu, ram, os) ==
  AzureBest(list, pre, enriched,
            ScanBest(AzureEntries(enriched, pre, vcpu, ram), 1, 0, 2 * Infinity), os)

AzurePick(list, pre, vcpu, ram, os) ==
  IF pre = {} THEN Thrown("no-entries", list)
  ELSE AzureScan(list, pre, [i \in DOMAIN list |-> AzureEnrich(list[i])], vcpu, ram, os)

findBestAzure(list, vcpu, ram, os, family) ==
  IF list = <<>> THEN Thrown("empty", list)
  ELSE AzurePick(list, AzurePre(list, os, family), vcpu, ram, os)

GcpFiltered(list, wantOs, family) ==
  {i \in DOMAIN list :
     /\ IsFinite(list[i].vcpu)
     /\ IsFinite(list[i].ram)
     /\ IsFinite(list[i].pricePerHourUSD)
     /\ (wantOs = <<>> \/ ToLower(list[i].os) = wantOs)
     /\ gcpFamilyMatch(list[i], family)}

GcpEntries(list, filtered, vcpu, ram) ==
  [i \in DOMAIN list |->
     [on |-> i \in filtered,
      score |-> Abs(Num(list[i].vcpu) - vcpu) + Abs(Num(list[i].ram) - ram),
      tie |-> Num(list[i].pricePerHourUSD),
      price |-> list[i].pricePerHourUSD]]

GcpPick(list, filtered, vcpu, ram) ==
  IF filtered = {} THEN Thrown("no-entries", list)
  ELSE Found(list, filtered, ScanBest(GcpEntries(list, filtered, vcpu, ram), 1, 0, Infinity))

findBestGcp(list, vcpu, ram, os, family) ==
  IF list = <<>> THEN Thrown("empty", list)
  ELSE GcpPick(list, GcpFiltered(list, ToLower(os), family), vcpu, ram)

(* ------------------------------------------------------------------ *)
(* Inputs of the finders                                               *)
(* ------------------------------------------------------------------ *)

\* longest record list handed to a finder
MaxLen == 2

nM5 == <<"m","5",".","l","a","r","g","e">>
nC5 == <<"c","5",".","l","a","r","g","e">>
nD2 == <<"S","t","a","n","d","a","r","d","_","D","2","s","_","v","5">>
nF4 == <<"S","t","a","n","d","a","r","d","_","F","4","s","_","v","2">>
nN2 == <<"n","2","_","s","t","a","n","d","a","r","d","_","4">>
nC2 == <<"c","2","_","s","t","a","n","d","a","r","d","_","4">>
sSpotSku == <<"D","2","s"," ","v","5"," ","S","p","o","t">>
sDedicated == <<"D","e","d","i","c","a","t","e","d">>

\* a price record as the fetchers write it; sku and tenancy are fields only
\* a raw or hand-made record would carry
Rec(instance, vcpu, ram, price, os, category, sku, tenancy) ==
  [instance |-> instance, vcpu |-> vcpu, ram |-> ram, pricePerHourUSD |-> price,
   os |-> os, category |-> category, productName |-> <<>>, skuName |-> sku,
   meterName |-> <<>>, billingModel |-> <<>>, tenancyType |-> tenancy]

AwsRecords ==
  {Rec(nM5, 2, 8, 1, os, <<>>, <<>>, <<>>) : os \in {sLinux, sWindows, sUnknown}}
  \cup {Rec(nC5, 4, 16, 1, os, <<>>, <<>>, <<>>) : os \in {sLinux, sWindows}}
  \cup {Rec(nM5, 4, 16, 1, sLinux, <<>>, <<>>, <<>>),
        Rec(nM5, 2, 8, 2, sLinux, <<>>, <<>>, <<>>),
        Rec(nC5, 2, 8, 2, sLinux, <<>>, <<>>, <<>>),
        Rec(nM5, NULL, NULL, 1, sLinux, <<>>, <<>>, <<>>),
        Rec(nM5, UNDEF, 8, 1, sLinux, <<>>, <<>>, <<>>),
        Rec(nM5, 2, 8, 1, sLinux, <<>>, sSpotSku, <<>>),
        Rec(nM5, 2, 8, 1, sLinux, <<>>, <<>>, sDedicated)}

AzureRecords ==
  {Rec(nD2, 2, 8, 1, os, sGeneral, <<>>, <<>>) : os \in {sLinux, sWindows, sUnknown}}
  \cup {Rec(nF4, 4, 16, 1, os, sCompute, <<>>, <<>>) : os \in {sLinux, sWindows}}
  \cup {Rec(nD2, 4, 16, 1, sLinux, sGeneral, <<>>, <<>>),
        Rec(nD2, 2, 8, 2, sLinux, sGeneral, <<>>, <<>>),
        Rec(nD2, UNDEF, UNDEF, 1, sLinux, <<>>, <<>>, <<>>),
        Rec(nF4, UNDEF, UNDEF, 2, sWindows, <<>>, <<>>, <<>>),
        Rec(nD2, NULL, NULL, 1, sUnknown, <<>>, <<>>, <<>>),
        Rec(nD2, NULL, NULL, 1, sLinux, sGeneral, <<>>, <<>>),
        Rec(nF4, 16, 64, 2, sLinux, sCompute, <<>>, <<>>),
        Rec(nD2, 2, 8, 1, sLinux, sGeneral, sSpotSku, <<>>),
        Rec(nD2, 2, 8, 1, sLinux, sGeneral, <<>>, sDedicated)}

GcpRecords ==
  {Rec(nN2, 2, 8, 1, os, sGeneral, <<>>, <<>>) : os \in {sLinux, sWindows, sUnknown}}
  \cup {Rec(nC2, 4, 16, 1, os, sCompute, <<>>, <<>>) : os \in {sLinux, sWindows}}
  \cup {Rec(nN2, 4, 16, 1, sLinux, sGeneral, <<>>, <<>>),
        Rec(nN2, 2, 8, 2, sLinux, sGeneral, <<>>, <<>>),
        Rec(nC2, 2, 8, 1, sLinux, <<>>, <<>>, <<>>),
        Rec(nN2, NULL, NULL, 1, sLinux, sGeneral, <<>>, <<>>),
        Rec(nN2, UNDEF, 8, 1, sLinux, sGeneral, <<>>, <<>>)}

RecordsOf(p) ==
  IF p = "aws" THEN AwsRecords ELSE IF p = "azure" THEN AzureRecords ELSE GcpRecords

ListsOf(p) == UNION {[1..n -> RecordsOf(p)] : n \in 0..MaxLen}

\* the requests compare() makes: vcpu and ram from the numeric selects, os
\* from the OS select, family "" (no filter) or one of the family options
Requests ==
  {[vcpu |-> sh[1], ram |-> sh[2], os |-> os, family |-> fam] :
     sh \in {<<2, 8>>, <<3, 12>>}, os \in {sLinux, sWindows},
     fam \in {<<>>, sGeneral, sCompute}}

Finders == {"aws", "azure", "gcp"}

findBest(p, list, r) ==
  IF p = "aws" THEN findBestAws(list, r.vcpu, r.ram, r.os, r.family)
  ELSE IF p = "azure" THEN findBestAzure(list, r.vcpu, r.ram, r.os, r.family)
  ELSE findBestGcp(list, r.vcpu, r.ram, r.os, r.family)

(* ------------------------------------------------------------------ *)
(* State                                                               *)
(* ------------------------------------------------------------------ *)

VARIABLES
  provider,   \* the provider whose price list `list` is
  list,       \* the list object handed to the finder, as it is now
  list0,      \* the list as loaded, before any call
  call,       \* the last finder call: request, list before, result
  again,      \* the result of repeating the last call on the same list object
  rows,       \* the rows a fetcher collected, input of the dedupe
  kind,       \* which dedupe runs: "map" (common.js) or "uniq" (fetch-prices.js)
  cheapest,   \* the result of the dedupe
  twice,      \* the result of the dedupe applied to its own output
  pipeline,   \* which scripts make up the pipeline
  files,      \* the provider files under data/
  prices,     \* data/prices.json
  run,        \* the pipeline run in progress
  step,       \* the last script executed: input, output, log
  ui,         \* the page: what it was given and what it last computed
  norm        \* a fetch script's classifier or normalizer: input and output

finderVars == <<provider, list, list0, call, again>>
dedupeVars == <<rows, kind, cheapest, twice>>
pipeVars == <<pipeline, files, prices, run, step>>
uiVars == <<ui>>
normVars == <<norm>>
vars == <<provider, list, list0, call, again, rows, kind, cheapest, twice,
          pipeline, files, prices, run, step, ui, norm>>

\* the parts of the program a specification does not run
FinderIdle ==
  /\ provider = "none" /\ list = <<>> /\ list0 = <<>>
  /\ call = [made |-> FALSE] /\ again = [made |-> FALSE]
DedupeIdle ==
  /\ rows = <<>> /\ kind = "none"
  /\ cheapest = [made |-> FALSE] /\ twice = [made |-> FALSE]
PipeIdle ==
  /\ pipeline = "none" /\ files = <<>> /\ prices = <<>>
  /\ run = <<>> /\ step = <<>>
UiIdle == ui = <<>>
NormIdle == norm = <<>>

NoCall == [made |-> FALSE]

FinderInit ==
  /\ provider \in Finders
  /\ list \in ListsOf(provider)
  /\ list0 = list
  /\ call = NoCall
  /\ again = NoCall
  /\ DedupeIdle
  /\ PipeIdle
  /\ UiIdle
  /\ NormIdle

\* compare() calls provider p's finder on the current list
Call(p, r) ==
  LET res == findBest(p, list, r)
  IN  /\ provider = p
      /\ ~call.made
      /\ call' = [made |-> TRUE, req |-> r, before |-> list, res |-> res]
      /\ list' = res.list
      /\ UNCHANGED <<provider, list0, again, dedupeVars, pipeVars, uiVars, normVars>>

CallAws == \E r \in Requests : Call("aws", r)
CallAzure == \E r \in Requests : Call("azure", r)
CallGcp == \E r \in Requests : Call("gcp", r)

\* the same finder called once more with the same arguments
Repeat ==
  /\ call.made
  /\ ~again.made
  /\ LET res == findBest(provider, list, call.req)
     IN  /\ again' = [made |-> TRUE, res |-> res]
         /\ list' = res.list
  /\ UNCHANGED <<provider, list0, call, dedupeVars, pipeVars, uiVars, normVars>>

\* the caller is done with the result; the list object stays loaded
Return ==
  /\ call.made
  /\ call' = NoCall
  /\ again' = NoCall
  /\ UNCHANGED <<provider, list, list0, dedupeVars, pipeVars, uiVars, normVars>>

FinderNext == CallAws \/ CallAzure \/ CallGcp \/ Repeat \/ Return

SpecFinder == FinderInit /\ [][FinderNext]_vars


(* ------------------------------------------------------------------ *)
(* Claims about the finders (checked under SpecFinder)                 *)
(* ------------------------------------------------------------------ *)

\* the last call returned a record
Returned == call.made /\ call.res.ok

\* the candidate set of the last call, computed from the list it was given
CandidatesOf(p, l, r) ==
  IF p = "aws" THEN AwsFiltered(l, ToLower(r.os), r.family)
  ELSE IF p = "azure" THEN AzurePre(l, r.os, r.family)
  ELSE GcpFiltered(l, ToLower(r.os), r.family)

\* twice |vcpu - wantVcpu| + |ram - wantRam| of the candidate (null counts as
\* 0, Azure specs completed from the name), plus 1 for the Unknown-OS half point
\* of findBestAzure
SpecsOf(p, x) == IF p = "azure" THEN AzureEnrich(x) ELSE x
ClaimScore2(p, x, r) ==
  2 * (Abs(Num(SpecsOf(p, x).vcpu) - r.vcpu) + Abs(Num(SpecsOf(p, x).ram) - r.ram))
  + (IF p = "azure" /\ x.os = sUnknown THEN 1 ELSE 0)

MinimalIn(p, l, r, cands, i) ==
  /\ i \in cands
  /\ \A j \in cands :
       /\ ClaimScore2(p, l[i], r) <= ClaimScore2(p, l[j], r)
       /\ ClaimScore2(p, l[j], r) = ClaimScore2(p, l[i], r)
            => l[i].pricePerHourUSD <= l[j].pricePerHourUSD

\* C1: every finder returns a member of its filtered candidate set with the
\* minimum score |vcpu - wantVcpu| + |ram - wantRam| (plus the Unknown-OS
\* penalty), and among the candidates with that score one of lowest price.
C1_ScoreOrdering ==
  Returned =>
    /\ call.res.pre = CandidatesOf(provider, call.before, call.req)
    /\ MinimalIn(provider, call.before, call.req, call.res.pre, call.res.idx)
    /\ call.res.rec.instance = call.before[call.res.idx].instance
    /\ call.res.rec.pricePerHourUSD = call.before[call.res.idx].pricePerHourUSD

\* the price tie-break decided: a later candidate with the same score as an
\* earlier one and a lower price was returned
C1_Witness ==
  /\ Returned
  /\ \E j \in call.res.pre :
       /\ j < call.res.idx
       /\ ClaimScore2(provider, call.before[j], call.req)
            = ClaimScore2(provider, call.before[call.res.idx], call.req)
       /\ call.before[call.res.idx].pricePerHourUSD < call.before[j].pricePerHourUSD

\* the last call asked for Windows on a non-empty list of Linux records only
WindowsOnLinuxOnly ==
  /\ call.made
  /\ call.req.os = sWindows
  /\ call.before # <<>>
  /\ \A i \in DOMAIN call.before : call.before[i].os = sLinux

NoEntries == ~call.res.ok /\ call.res.err = "no-entries"

\* C2 as stated: every finder fails with the no-entries error when Windows is
\* requested and every record is a Linux record.
C2_AllFindersFail == WindowsOnLinuxOnly => NoEntries

\* C2 amended: findBestAws and findBestGcp fail with the no-entries error;
\* findBestAzure ignores the OS in its last filter step, so it fails only when
\* no on-demand record matches the family, and otherwise returns a Linux
\* record relabelled with the requested OS.
C2_NoMatchFailure ==
  WindowsOnLinuxOnly =>
    IF provider = "azure"
    THEN IF AzureNoOs(call.before, call.req.family) = {}
         THEN NoEntries
         ELSE /\ call.res.ok
              /\ call.before[call.res.idx].os = sLinux
              /\ call.res.rec.os = sWindows
    ELSE NoEntries

\* findBestAws or findBestGcp refused a list that has Linux candidates for
\* the requested shape and family
C2_Witness ==
  /\ WindowsOnLinuxOnly
  /\ provider # "azure"
  /\ NoEntries
  /\ CandidatesOf(provider, call.before,
                  [call.req EXCEPT !.os = sLinux]) # {}

\* the strict OS + family filter of the last findBestAzure call kept a record
StrictHit ==
  /\ call.made
  /\ provider = "azure"
  /\ AzureStrict(call.before, call.req.os, call.req.family) # {}

\* C3 as stated: the returned record passed the strict filter, its category
\* is the requested family and its OS as stored in the list is the requested OS.
C3_StrictCategoryAndOs ==
  StrictHit =>
    /\ call.res.ok
    /\ call.res.idx \in AzureStrict(call.before, call.req.os, call.req.family)
    /\ call.req.family # <<>> =>
         call.before[call.res.idx].category = call.req.family
    /\ call.before[call.res.idx].os = call.req.os

\* C3 amended: when the strict filter keeps a record the relaxed filters
\* contribute nothing: the returned record is on-demand, its stored OS is the
\* requested OS or "Unknown", and its category - or, when it has no category,
\* the family letter of its instance name - matches the requested family.
C3_MonotonicRelaxation ==
  StrictHit =>
    /\ call.res.ok
    /\ call.res.pre = AzureStrict(call.before, call.req.os, call.req.family)
    /\ call.before[call.res.idx].os \in {call.req.os, sUnknown}
    /\ isOnDemandShared(call.before[call.res.idx])
    /\ call.req.family # <<>> =>
         IF call.before[call.res.idx].category # <<>>
         THEN call.before[call.res.idx].category = call.req.family
         ELSE isAzureInFamily(call.before[call.res.idx].instance, call.req.family)

\* the strict filter kept a record while a record that only the relaxed
\* filters accept is closer to the request
C3_Witness ==
  /\ StrictHit
  /\ call.res.ok
  /\ \E j \in DOMAIN call.before :
       /\ j \notin AzureStrict(call.before, call.req.os, call.req.family)
       /\ isOnDemandShared(call.before[j])
       /\ ClaimScore2("azure", call.before[j], call.req)
            < ClaimScore2("azure", call.before[call.res.idx], call.req)

\* what a caller sees of a call: failure and its error, or the record
Outcome(res) ==
  IF res.ok THEN [ok |-> TRUE, idx |-> res.idx, rec |-> res.rec]
  ELSE [ok |-> FALSE, err |-> res.err]

C5_ListUnchanged == list = list0


(* ------------------------------------------------------------------ *)
(* scripts/lib/common.js: dedupeCheapestByKey                          *)
(* ------------------------------------------------------------------ *)

sDash == <<"-">>

\* r => `${r.instance}-${r.region}-${r.os}`, the key function of the fetchers
KeyInstanceRegionOs(r) == r.instance \o sDash \o r.region \o sDash \o r.os

\* `${instance}-${os}-${AZURE_REGION}`, the key of the monolithic fetch-prices.js
KeyInstanceOsRegion(r) == r.instance \o sDash \o r.os \o sDash \o r.region

keyFn(k, r) ==
  IF k = "map" THEN KeyInstanceRegionOs(r) ELSE KeyInstanceOsRegion(r)

\* a Map (or a plain object with string keys) is a sequence of entries in
\* insertion order; setting a key it holds keeps the entry's position
MapHas(map, k) == \E i \in DOMAIN map : map[i].key = k
MapIndex(map, k) == CHOOSE i \in DOMAIN map : map[i].key = k
MapGet(map, k) == map[MapIndex(map, k)].value
\* variant of set() that adds an entry whether or not the key is there
MapSetAppend(map, k, row) == Append(map, [key |-> k, value |-> row])

\* variant of the result in reverse order of insertion
MapValuesReversed(map) == [i \in DOMAIN map |-> map[Len(map) + 1 - i].value]

MapSet(map, k, row) ==
  IF MapHas(map, k)
  THEN [map EXCEPT ![MapIndex(map, k)] = [key |-> k, value |-> row]]
  ELSE Append(map, [key |-> k, value |-> row])
MapValues(map) == [i \in DOMAIN map |-> map[i].value]

\* variant of the replacement test that keeps the dearest row
isCheaperInverted(map, k, row) ==
  ~MapHas(map, k) \/ row.pricePerHourUSD > MapGet(map, k).pricePerHourUSD

\* variant of the replacement test that lets an equal price replace
isCheaperOrEqual(map, k, row) ==
  ~MapHas(map, k) \/ row.pricePerHourUSD <= MapGet(map, k).pricePerHourUSD

\* !map.has(k) || row.pricePerHourUSD < map.get(k).pricePerHourUSD
isCheaper(map, k, row) ==
  ~MapHas(map, k) \/ row.pricePerHourUSD < MapGet(map, k).pricePerHourUSD

\* the body of `for (const row of list)`
DedupeStep(map, k, row) == IF isCheaper(map, k, row) THEN MapSet(map, k, row) ELSE map

RECURSIVE DedupeLoop(_, _, _, _)
DedupeLoop(rs, k, i, map) ==
  IF i > Len(rs) THEN map
  ELSE DedupeLoop(rs, k, i + 1, DedupeStep(map, keyFn(k, rs[i]), rs[i]))

dedupeCheapestByKey(rs, k) == MapValues(DedupeLoop(rs, k, 1, <<>>))

\* the `uniq` object of fetchAzurePrices in the monolithic fetch-prices.js:
\* if (!uniq[key] || price < uniq[key].pricePerHourUSD) uniq[key] = {...};
\* return Object.values(uniq)
uniqCheapest(rs) == MapValues(DedupeLoop(rs, "uniq", 1, <<>>))

dedupe(k, rs) == IF k = "map" THEN dedupeCheapestByKey(rs, "map") ELSE uniqCheapest(rs)

(* ------------------------------------------------------------------ *)
(* Inputs and state machine of the dedupe                              *)
(* ------------------------------------------------------------------ *)

MaxRows == 3

sUsEast1 == <<"u","s","-","e","a","s","t","-","1">>
sEastUs == <<"e","a","s","t","u","s">>

\* a row as the fetchers push it: price > 0, OS Linux or Windows
Row(instance, price, region, os) ==
  [instance |-> instance, pricePerHourUSD |-> price, region |-> region, os |-> os]

DedupeRows ==
  {Row(i, pr, rg, os) : i \in {nM5, nC5}, pr \in {1, 2},
                        rg \in {sUsEast1, sEastUs}, os \in {sLinux, sWindows}}

DedupeKinds == {"map", "uniq"}

DedupeInit ==
  /\ kind \in DedupeKinds
  /\ rows \in UNION {[1..n -> DedupeRows] : n \in 0..MaxRows}
  /\ cheapest = [made |-> FALSE]
  /\ twice = [made |-> FALSE]
  /\ FinderIdle
  /\ PipeIdle
  /\ UiIdle
  /\ NormIdle

\* const cheapest = dedupeCheapestByKey(rows, keyFn)
\* the rows with their position in the list, to tell apart the objects of
\* two rows that are equal field by field
Tagged(rs) ==
  [i \in DOMAIN rs |->
     [instance |-> rs[i].instance, pricePerHourUSD |-> rs[i].pricePerHourUSD,
      region |-> rs[i].region, os |-> rs[i].os, from |-> i]]
PickedFrom(t) == [i \in DOMAIN t |-> t[i].from]

\* `from` is the position of each returned object in the list, `list` the
\* list as it stands after the call: nothing in the function writes to it
Dedupe ==
  /\ ~cheapest.made
  /\ cheapest' = [made |-> TRUE, out |-> dedupe(kind, rows),
                  from |-> PickedFrom(dedupe(kind, Tagged(rows))),
                  list |-> rows]
  /\ UNCHANGED <<rows, kind, twice, finderVars, pipeVars, uiVars, normVars>>

\* the dedupe applied to its own output
DedupeOutput ==
  /\ cheapest.made
  /\ ~twice.made
  /\ twice' = [made |-> TRUE, out |-> dedupe(kind, cheapest.out)]
  /\ UNCHANGED <<rows, kind, cheapest, finderVars, pipeVars, uiVars, normVars>>

\* the results are dropped; the rows are still there
DedupeDone ==
  /\ twice.made
  /\ cheapest' = [made |-> FALSE]
  /\ twice' = [made |-> FALSE]
  /\ UNCHANGED <<rows, kind, finderVars, pipeVars, uiVars, normVars>>

DedupeNext == Dedupe \/ DedupeOutput \/ DedupeDone

SpecDedupe == DedupeInit /\ [][DedupeNext]_vars

(* ------------------------------------------------------------------ *)
(* Claims about the dedupe (checked under SpecDedupe)                  *)
(* ------------------------------------------------------------------ *)

RowsWithKey(rs, k, key) == {i \in DOMAIN rs : keyFn(k, rs[i]) = key}
KeysIn(rs, k) == {keyFn(k, rs[i]) : i \in DOMAIN rs}

\* C6: for every key that occurs in the input, the output has a row for that
\* key and its pricePerHourUSD is the minimum over the input rows with that key.
C6_DedupMinimality ==
  cheapest.made =>
    \A key \in KeysIn(rows, kind) :
      /\ RowsWithKey(cheapest.out, kind, key) # {}
      /\ \A o \in RowsWithKey(cheapest.out, kind, key) :
           /\ \A i \in RowsWithKey(rows, kind, key) :
                cheapest.out[o].pricePerHourUSD <= rows[i].pricePerHourUSD
           /\ \E i \in RowsWithKey(rows, kind, key) : rows[i] = cheapest.out[o]

\* a key whose cheapest row came after a dearer row with that key
C6_Witness ==
  /\ cheapest.made
  /\ \E i, j \in DOMAIN rows :
       /\ i < j
       /\ keyFn(kind, rows[i]) = keyFn(kind, rows[j])
       /\ rows[j].pricePerHourUSD < rows[i].pricePerHourUSD
       /\ \E o \in DOMAIN cheapest.out : cheapest.out[o] = rows[j]

\* C8: the dedupe applied to its own output returns the same rows in the
\* same order.
C8_DedupIdempotence == twice.made => twice.out = cheapest.out

\* the first application dropped a row and kept at least two
C8_Witness ==
  /\ twice.made
  /\ Len(cheapest.out) < Len(rows)
  /\ Len(twice.out) >= 2


(* ------------------------------------------------------------------ *)
(* The pricing pipeline: provider fetchers and aggregators             *)
(* ------------------------------------------------------------------ *)

\* Number.isFinite(v): no coercion, null and undefined are not finite
NumberIsFinite(v) == v # NULL /\ v # UNDEF

RECURSIVE SortedSeq(_)
SortedFrom(S, m) == <<m>> \o SortedSeq(S \ {m})
SortedSeq(S) == IF S = {} THEN <<>> ELSE SortedFrom(S, MinOf(S))

\* Array.from(new Set([...a, ...b])): first occurrences, in order
RECURSIVE SetOrder(_, _, _)
SetOrder(xs, i, acc) ==
  IF i > Len(xs) THEN acc
  ELSE SetOrder(xs, i + 1,
                IF \E j \in DOMAIN acc : acc[j] = xs[i] THEN acc ELSE Append(acc, xs[i]))

\* variant without the sort: the distinct finite values in order of occurrence
FiniteOnly(arr) == SelectSeq(arr, NumberIsFinite)
uniqNums(arr) == SetOrder(FiniteOnly(arr), 1, <<>>)

\* [...new Set(arr.filter(Number.isFinite))].sort((a, b) => a - b)
uniqSortedNums(arr) == SortedSeq({arr[i] : i \in {j \in DOMAIN arr : NumberIsFinite(arr[j])}})

EmptyMeta == [os |-> <<>>, vcpu |-> <<>>, ram |-> <<>>]

mergeMeta(a, b) ==
  [os |-> SetOrder(a.os \o b.os, 1, <<>>),
   vcpu |-> uniqSortedNums(a.vcpu \o b.vcpu),
   ram |-> uniqSortedNums(a.ram \o b.ram)]

\* meta = { os: ["Linux", "Windows"], vcpu: uniqSortedNums(...), ram: ... }
MetaOf(compute) ==
  [os |-> <<sLinux, sWindows>>,
   vcpu |-> uniqSortedNums([i \in DOMAIN compute |-> compute[i].vcpu]),
   ram |-> uniqSortedNums([i \in DOMAIN compute |-> compute[i].ram])]

\* variant of the guard that never skips
warnAndSkipNever(l) == FALSE

\* warnAndSkipWriteOnEmpty: true (after a console.warn) when the list is empty
warnAndSkipWriteOnEmpty(l) == Len(l) = 0

Msg(k, p) == [kind |-> k, provider |-> p]

\* the FAILOVER line warnAndSkipWriteOnEmpty prints
SkipLog(p, l) == IF Len(l) = 0 THEN {Msg("FAILOVER", p)} ELSE {}

AWS_OUT == "data/aws/aws.prices.json"
AZURE_OUT == "data/azure/azure.prices.json"
GCP_OUT == "data/gcp/gcp.prices.json"
OCI_OUT == "data/oci/oci.prices.json"
GCP_GENERIC == "data/gcp/prices.json"
OCI_GENERIC == "data/oci/prices.json"

ProviderPaths == {AWS_OUT, AZURE_OUT, GCP_OUT, OCI_OUT, GCP_GENERIC, OCI_GENERIC}

\* OUT of each fetcher
OutOf(p) ==
  IF p = "aws" THEN AWS_OUT
  ELSE IF p = "azure" THEN AZURE_OUT
  ELSE IF p = "gcp" THEN GCP_OUT ELSE OCI_OUT

\* a provider file { meta, compute } (the constant storage figures are left out)
NoFile == [exists |-> FALSE, meta |-> EmptyMeta, compute |-> <<>>]
FileOf(compute) == [exists |-> TRUE, meta |-> MetaOf(compute), compute |-> compute]

\* categorizeByInstanceName of scripts/lib/azure.js
sStandardUnderscore == <<"s","t","a","n","d","a","r","d","_">>
sOther == <<"o","t","h","e","r">>
CategoryOfLead(body) ==
  IF body = <<>> THEN sOther
  ELSE IF body[1] = "d" THEN sGeneral
  ELSE IF body[1] = "e" THEN sMemory
  ELSE IF body[1] = "f" THEN sCompute ELSE sOther
StripStandard(n) ==
  IF StartsWith(n, sStandardUnderscore) THEN SubSeq(n, 10, Len(n)) ELSE n
categorizeByInstanceName(instance) == CategoryOfLead(StripStandard(ToLower(instance)))

\* vm.vcpu = spec?.vcpu ?? null; vm.ram = spec?.ram ?? null; vm.category = ...
SkuSpec(skuMap, vm, field) ==
  IF MapHas(skuMap, ToLower(vm.instance))
  THEN Coalesce(MapGet(skuMap, ToLower(vm.instance))[field], NULL)
  ELSE NULL
AzureVm(vm, skuMap) ==
  [instance |-> vm.instance, pricePerHourUSD |-> vm.pricePerHourUSD,
   region |-> vm.region, os |-> vm.os,
   vcpu |-> SkuSpec(skuMap, vm, "vcpu"), ram |-> SkuSpec(skuMap, vm, "ram"),
   category |-> categorizeByInstanceName(vm.instance)]

\* what a fetcher's main puts in `compute`
ComputeOf(p, ch, skuMap) ==
  IF p = "azure" THEN [i \in DOMAIN ch |-> AzureVm(ch[i], skuMap)] ELSE ch

\* variant of the end of a fetcher's main that writes whatever it has
FetchWriteAlways(old, p, ch, skuMap) == FileOf(ComputeOf(p, ch, skuMap))

\* if (warnAndSkipWriteOnEmpty(P, cheapest)) return; ... atomicWrite(OUT, out)
FetchWrite(old, p, ch, skuMap) ==
  IF warnAndSkipWriteOnEmpty(ch) THEN old ELSE FileOf(ComputeOf(p, ch, skuMap))

\* data/prices.json: `has` is the set of provider keys the object carries
AllProviders == {"aws", "azure", "gcp", "oci"}
NoArrays == [p \in AllProviders |-> <<>>]
NoPrices ==
  [exists |-> FALSE, meta |-> EmptyMeta, has |-> {}, compute |-> NoArrays,
   generatedAt |-> UNDEF]

\* build-prices.js: the file aggregate() reads for each provider
AggProviders == <<"aws", "azure", "gcp", "oci">>
AggPath(p) ==
  IF p = "aws" THEN AWS_OUT
  ELSE IF p = "azure" THEN AZURE_OUT
  ELSE IF p = "gcp" THEN GCP_GENERIC ELSE OCI_GENERIC

\* one round of `for (const p of providers)` for a file that exists
AggAdd(agg, p, j) ==
  [agg EXCEPT !.meta = mergeMeta(agg.meta, j.meta),
              !.has = agg.has \cup {p},
              !.compute = [agg.compute EXCEPT ![p] = j.compute]]

RECURSIVE AggLoop(_, _, _)
AggLoop(fs, i, agg) ==
  IF i > Len(AggProviders) THEN agg
  ELSE AggLoop(fs, i + 1,
               IF fs[AggPath(AggProviders[i])].exists
               THEN AggAdd(agg, AggProviders[i], fs[AggPath(AggProviders[i])])
               ELSE agg)

aggregate(fs) ==
  AggLoop(fs, 1, [exists |-> TRUE, meta |-> EmptyMeta, has |-> {},
                  compute |-> NoArrays, generatedAt |-> UNDEF])

\* console.log of "file not found or empty" or of "rows: n" for each provider
AggregateLog(fs) ==
  {Msg(IF fs[AggPath(p)].exists THEN "rows" ELSE "not-found", p) : p \in AllProviders}

\* the flat build-prices.js: loadJSON of the three provider files
FlatProviders == {"aws", "azure", "gcp"}
asComputeArray(file) == IF file.exists THEN file.compute ELSE <<>>
FlatMeta2(fs, m) == IF fs[GCP_OUT].exists THEN mergeMeta(m, fs[GCP_OUT].meta) ELSE m
FlatMeta1(fs, m) ==
  FlatMeta2(fs, IF fs[AZURE_OUT].exists THEN mergeMeta(m, fs[AZURE_OUT].meta) ELSE m)
FlatMeta(fs) ==
  FlatMeta1(fs, IF fs[AWS_OUT].exists THEN mergeMeta(EmptyMeta, fs[AWS_OUT].meta)
                ELSE EmptyMeta)
FlatOf(fs, now) ==
  [exists |-> TRUE, meta |-> FlatMeta(fs), has |-> FlatProviders,
   compute |-> [p \in AllProviders |->
                  IF p \in FlatProviders THEN asComputeArray(fs[OutOf(p)]) ELSE <<>>],
   generatedAt |-> now]

\* "Missing file" from loadJSON and "compute array is empty" before the write
FlatLog(fs) ==
  {Msg("missing", p) : p \in {q \in FlatProviders : ~fs[OutOf(q)].exists}}
  \cup {Msg("empty-array", p) :
          p \in {q \in FlatProviders : Len(asComputeArray(fs[OutOf(q)])) = 0}}


\* the monolithic fetch-prices.js: enrichAzureVmSizes sets the specs and the
\* category of the sizes the vmSizes answer knows, and leaves the rest alone
sD == <<"D">>
sE == <<"E">>
sF == <<"F">>
MonolithCategory(instance) ==
  IF StartsWith(instance, sD) THEN sGeneral
  ELSE IF StartsWith(instance, sE) THEN sMemory
  ELSE IF StartsWith(instance, sF) THEN sCompute ELSE sOther
MonolithVm(vm, sizeMap) ==
  IF MapHas(sizeMap, vm.instance)
  THEN [instance |-> vm.instance, pricePerHourUSD |-> vm.pricePerHourUSD,
        region |-> vm.region, os |-> vm.os,
        vcpu |-> MapGet(sizeMap, vm.instance).vcpu,
        ram |-> MapGet(sizeMap, vm.instance).ram,
        category |-> MonolithCategory(vm.instance)]
  ELSE [instance |-> vm.instance, pricePerHourUSD |-> vm.pricePerHourUSD,
        region |-> vm.region, os |-> vm.os,
        vcpu |-> UNDEF, ram |-> UNDEF, category |-> UNDEF]
enrichAzureVmSizes(azureVMs, sizeMap) ==
  [i \in DOMAIN azureVMs |-> MonolithVm(azureVMs[i], sizeMap)]

\* variant of the failover test that looks at the AWS list only
failoverAwsOnly(aws, azure) == Len(aws) = 0

\* if (!aws.length) return; if (!azureRaw.length) return;
failover(aws, azure) == Len(aws) = 0 \/ Len(azure) = 0

MonolithLog(aws, azure) ==
  IF Len(aws) = 0 THEN {Msg("FAILOVER", "aws")}
  ELSE IF Len(azure) = 0 THEN {Msg("FAILOVER", "azure")} ELSE {}

\* final = { meta, aws, azure, storage }
FinalOf(aws, azure) ==
  [exists |-> TRUE, meta |-> MetaOf(azure), has |-> {"aws", "azure"},
   compute |-> [NoArrays EXCEPT !["aws"] = aws, !["azure"] = azure],
   generatedAt |-> UNDEF]

(* ------------------------------------------------------------------ *)
(* Inputs and state machine of the pipeline                            *)
(* ------------------------------------------------------------------ *)

MaxFetched == 2
MaxRuns == 2

sUsEast1Gcp == <<"u","s","-","e","a","s","t","1">>

\* rows as the fetchers push them, after their own filters
AwsFetched ==
  {[instance |-> nM5, vcpu |-> 2, ram |-> 8, pricePerHourUSD |-> po[1],
    region |-> sUsEast1, os |-> po[2]] :
     po \in {<<1, sLinux>>, <<2, sLinux>>, <<1, sWindows>>}}
AzureFetched == {Row(nD2, 1, sEastUs, sLinux)}
nE2 == <<"e","2","_","m","e","d","i","u","m">>
GcpFetched ==
  {[instance |-> nE2, category |-> sGeneral, vcpu |-> 1, ram |-> 4,
    pricePerHourUSD |-> 1, region |-> sUsEast1Gcp, os |-> sLinux]}
FetchedOf(p) ==
  IF p = "aws" THEN AwsFetched ELSE IF p = "azure" THEN AzureFetched ELSE GcpFetched
FetchedLists(p) == UNION {[1..n -> FetchedOf(p)] : n \in 0..MaxFetched}

\* what the ARM answers hold: nothing (no token, or the call failed), or D2
NoSpecs == <<>>
SkuMaps == {<<>>, <<[key |-> ToLower(nD2), value |-> [vcpu |-> 2, ram |-> 8]]>>}
SizeMaps == {<<>>, <<[key |-> nD2, value |-> [vcpu |-> 2, ram |-> 8]]>>}

Pipelines == {"modular", "flat", "monolith"}

NoStep ==
  [script |-> "none", p |-> "none", rows |-> <<>>, cheapest |-> <<>>,
   wrote |-> FALSE, before |-> NoPrices, log |-> {}]

PipeInit ==
  /\ pipeline \in Pipelines
  /\ files = [f \in ProviderPaths |-> NoFile]
  /\ prices = NoPrices
  /\ run = [n |-> 1, fetched |-> {}, empty |-> {}, done |-> FALSE,
            prices0 |-> NoPrices, files0 |-> [f \in ProviderPaths |-> NoFile]]
  /\ step = NoStep
  /\ FinderIdle
  /\ DedupeIdle
  /\ UiIdle
  /\ NormIdle

\* main of a provider fetcher, run once per pipeline run
FetchMain(p, rs, skuMap) ==
  LET ch == dedupeCheapestByKey(rs, "map")
  IN  /\ pipeline \in {"modular", "flat"}
      /\ ~run.done
      /\ p \notin run.fetched
      /\ files' = [files EXCEPT ![OutOf(p)] = FetchWrite(files[OutOf(p)], p, ch, skuMap)]
      /\ step' = [script |-> "fetch", p |-> p, rows |-> rs, cheapest |-> ch,
                  wrote |-> ~warnAndSkipWriteOnEmpty(ch), before |-> prices,
                  log |-> SkipLog(p, ch)]
      /\ run' = [run EXCEPT !.fetched = @ \cup {p},
                            !.empty = IF Len(ch) = 0 THEN @ \cup {p} ELSE @]
      /\ UNCHANGED <<pipeline, prices, finderVars, dedupeVars, uiVars, normVars>>

FetchAws == \E rs \in FetchedLists("aws") : FetchMain("aws", rs, NoSpecs)
FetchAzure ==
  \E rs \in FetchedLists("azure"), skuMap \in SkuMaps : FetchMain("azure", rs, skuMap)
FetchGcp == \E rs \in FetchedLists("gcp") : FetchMain("gcp", rs, NoSpecs)

\* oci.fetch.js: compute is empty for now, and written as such
FetchOci ==
  /\ pipeline = "modular"
  /\ ~run.done
  /\ "oci" \notin run.fetched
  /\ files' = [files EXCEPT ![OCI_OUT] = FileOf(<<>>)]
  /\ step' = [NoStep EXCEPT !.script = "fetch", !.p = "oci", !.wrote = TRUE,
                            !.before = prices]
  /\ run' = [run EXCEPT !.fetched = @ \cup {"oci"}]
  /\ UNCHANGED <<pipeline, prices, finderVars, dedupeVars, uiVars, normVars>>

\* variant of the check that never finds the inputs missing
noneSeenNever(agg) == FALSE

\* if (!seen.aws && !seen.azure && !seen.gcp && !seen.oci) throw
noneSeen(agg) == agg.has = {}

\* scripts/aggregate/build-prices.js: throws when no provider file is seen
Aggregate ==
  /\ pipeline = "modular"
  /\ ~run.done
  /\ IF noneSeen(aggregate(files))
     THEN /\ prices' = prices
          /\ step' = [NoStep EXCEPT !.script = "aggregate", !.before = prices,
                                    !.log = AggregateLog(files) \cup {Msg("abort", "all")}]
     ELSE /\ prices' = aggregate(files)
          /\ step' = [NoStep EXCEPT !.script = "aggregate", !.wrote = TRUE,
                                    !.before = prices, !.log = AggregateLog(files)]
  /\ run' = [run EXCEPT !.done = TRUE]
  /\ UNCHANGED <<pipeline, files, finderVars, dedupeVars, uiVars, normVars>>

\* the flat build-prices.js: exits when no provider file is found
AggregateFlat ==
  /\ pipeline = "flat"
  /\ ~run.done
  /\ IF \A p \in FlatProviders : ~files[OutOf(p)].exists
     THEN /\ prices' = prices
          /\ step' = [NoStep EXCEPT !.script = "aggregate", !.before = prices,
                        !.log = {Msg("missing", p) : p \in FlatProviders}
                                \cup {Msg("abort", "all")}]
     ELSE /\ prices' = FlatOf(files, run.n)
          /\ step' = [NoStep EXCEPT !.script = "aggregate", !.wrote = TRUE,
                                    !.before = prices, !.log = FlatLog(files)]
  /\ run' = [run EXCEPT !.done = TRUE]
  /\ UNCHANGED <<pipeline, files, finderVars, dedupeVars, uiVars, normVars>>

\* main of the monolithic fetch-prices.js: one script fetches and writes
FetchPrices ==
  /\ pipeline = "monolith"
  /\ ~run.done
  /\ \E ar \in FetchedLists("aws"), zr \in FetchedLists("azure"), sizeMap \in SizeMaps :
       /\ prices' = IF failover(uniqCheapest(ar), uniqCheapest(zr)) THEN prices
                    ELSE FinalOf(uniqCheapest(ar),
                                 enrichAzureVmSizes(uniqCheapest(zr), sizeMap))
       /\ step' = [script |-> "fetch-prices", p |-> "all", rows |-> ar \o zr,
                   cheapest |-> uniqCheapest(ar) \o uniqCheapest(zr),
                   wrote |-> ~failover(uniqCheapest(ar), uniqCheapest(zr)),
                   before |-> prices,
                   log |-> MonolithLog(uniqCheapest(ar), uniqCheapest(zr))]
       /\ run' = [run EXCEPT
                    !.fetched = {"aws", "azure"},
                    !.empty = {q \in {"aws"} : Len(uniqCheapest(ar)) = 0}
                              \cup {q \in {"azure"} : Len(uniqCheapest(zr)) = 0},
                    !.done = TRUE]
  /\ UNCHANGED <<pipeline, files, finderVars, dedupeVars, uiVars, normVars>>

\* the next scheduled run of the workflow
NextRun ==
  /\ run.done
  /\ run.n < MaxRuns
  /\ run' = [n |-> run.n + 1, fetched |-> {}, empty |-> {}, done |-> FALSE,
             prices0 |-> prices, files0 |-> files]
  /\ step' = NoStep
  /\ UNCHANGED <<pipeline, files, prices, finderVars, dedupeVars, uiVars, normVars>>

PipeNext ==
  \/ FetchAws \/ FetchAzure \/ FetchGcp \/ FetchOci
  \/ Aggregate \/ AggregateFlat \/ FetchPrices \/ NextRun

SpecPipeline == PipeInit /\ [][PipeNext]_vars


(* ------------------------------------------------------------------ *)
(* Claims about the pipeline (checked under SpecPipeline)              *)
(* ------------------------------------------------------------------ *)

SameTriple(a, b) == a.instance = b.instance /\ a.os = b.os /\ a.region = b.region
OnePerTriple(rs) == \A i, j \in DOMAIN rs : SameTriple(rs[i], rs[j]) => i = j
UniqueKeys(rs, k) == \A i, j \in DOMAIN rs : keyFn(k, rs[i]) = keyFn(k, rs[j]) => i = j

\* the last script was a provider fetcher that ran the dedupe
FetchedStep == step.script = "fetch" /\ step.p # "oci"

\* C7: the output of the dedupe holds no two rows with the same key and no
\* more rows than the input; every record list written - provider files and
\* data/prices.json - holds exactly one record per (instance, os, region)
\* that was fetched.
C7_DedupUnique ==
  /\ FetchedStep =>
       /\ UniqueKeys(step.cheapest, "map")
       /\ Len(step.cheapest) <= Len(step.rows)
       /\ step.wrote =>
            \A i \in DOMAIN step.rows :
              Cardinality({j \in DOMAIN files[OutOf(step.p)].compute :
                             SameTriple(files[OutOf(step.p)].compute[j], step.rows[i])}) = 1
  /\ \A f \in ProviderPaths : OnePerTriple(files[f].compute)
  /\ \A p \in AllProviders : OnePerTriple(prices.compute[p])

\* a fetcher collected two rows for one triple and wrote its file
C7_Witness ==
  /\ FetchedStep
  /\ step.wrote
  /\ Len(step.cheapest) < Len(step.rows)

\* the pipeline run is over, a provider's fetch ended with no usable record
\* in it, and an earlier run had written data/prices.json
EmptyFetchRun == run.done /\ run.empty # {} /\ run.prices0.exists

Warnings == {"FAILOVER", "empty-array", "missing"}
Warned(p) == \E m \in step.log : m.provider = p /\ m.kind \in Warnings

\* C10: no script turns a provider's non-empty array in data/prices.json into
\* an empty or missing one without printing a warning for that provider.
C10_NoSilentEmptying ==
  \A p \in AllProviders :
    (Len(step.before.compute[p]) > 0 /\ Len(prices.compute[p]) = 0) => Warned(p)

\* provider A fetched nothing, provider B fetched records, the aggregator
\* wrote data/prices.json, and A's array in it is still not empty
C10_Witness ==
  /\ step.script = "aggregate"
  /\ step.wrote
  /\ \E a \in run.empty, b \in run.fetched \ run.empty :
       /\ Len(step.before.compute[a]) > 0
       /\ Len(prices.compute[a]) > 0
       /\ Len(prices.compute[b]) > 0


\* the file an aggregator reads for provider p, and the providers it reads
InputOf(p) == IF pipeline = "modular" THEN files[AggPath(p)] ELSE files[OutOf(p)]
InputProviders == IF pipeline = "modular" THEN AllProviders ELSE FlatProviders
NoRecordsIn(p) == ~InputOf(p).exists \/ Len(InputOf(p).compute) = 0

\* the last script was an aggregator, or the monolithic script that
\* aggregates what it has just fetched
AggregatorRan == step.script = "aggregate"
AllEmpty ==
  \/ AggregatorRan /\ \A p \in InputProviders : NoRecordsIn(p)
  \/ step.script = "fetch-prices" /\ run.empty = {"aws", "azure"}

ElemsOf(q) == {q[i] : i \in DOMAIN q}
StrictlyAscending(q) == \A i, j \in DOMAIN q : i < j => q[i] < q[j]
NoRepeats(q) == \A i, j \in DOMAIN q : q[i] = q[j] => i = j
PresentInputs == {p \in InputProviders : InputOf(p).exists}

\* C12: the meta.vcpu and meta.ram an aggregator writes are the union of the
\* meta.vcpu and meta.ram of the provider files it found, strictly ascending;
\* meta.os is the union of their meta.os, each value once.
C12_MetaUnion ==
  (AggregatorRan /\ step.wrote) =>
    /\ ElemsOf(prices.meta.vcpu) = UNION {ElemsOf(InputOf(p).meta.vcpu) : p \in PresentInputs}
    /\ ElemsOf(prices.meta.ram) = UNION {ElemsOf(InputOf(p).meta.ram) : p \in PresentInputs}
    /\ ElemsOf(prices.meta.os) = UNION {ElemsOf(InputOf(p).meta.os) : p \in PresentInputs}
    /\ StrictlyAscending(prices.meta.vcpu)
    /\ StrictlyAscending(prices.meta.ram)
    /\ NoRepeats(prices.meta.os)

\* two provider files share a vcpu value and a later one brings a smaller one
C12_Witness ==
  /\ AggregatorRan
  /\ step.wrote
  /\ \E p, q \in PresentInputs :
       /\ p # q
       /\ ElemsOf(InputOf(p).meta.vcpu) \cap ElemsOf(InputOf(q).meta.vcpu) # {}
  /\ InputOf("aws").exists
  /\ InputOf("gcp").exists
  /\ InputOf("gcp").meta.vcpu[1] < InputOf("aws").meta.vcpu[1]

(* ------------------------------------------------------------------ *)
(* The page: storage price resolvers (docs/ui/utils.js)                *)
(* ------------------------------------------------------------------ *)

\* the numbers of a set in ascending order, [...allowed].sort((a, b) => a - b)
RECURSIVE Ascending(_)
Ascending(S) ==
  IF S = {} THEN <<>>
  ELSE LET m == CHOOSE x \in S : \A y \in S : x <= y
       IN <<m>> \o Ascending(S \ {m})

RECURSIVE FirstAtLeast(_, _, _)
FirstAtLeast(requested, sorted, i) ==
  IF i > Len(sorted) THEN 0
  ELSE IF requested <= sorted[i] THEN i
  ELSE FirstAtLeast(requested, sorted, i + 1)

nearestCeilLargest(requested, allowed) ==
  IF allowed = {} THEN NULL ELSE Ascending(allowed)[Cardinality(allowed)]

nearestCeilOf(requested, sorted, i) ==
  IF i > 0 THEN sorted[i]
  ELSE IF Len(sorted) > 0 THEN sorted[Len(sorted)] ELSE NULL

nearestCeil(requested, allowed) ==
  nearestCeilOf(requested, Ascending(allowed),
                FirstAtLeast(requested, Ascending(allowed), 1))

SsdSku ==
  [s \in {4, 8, 16, 32, 64, 128, 256, 512, 1024, 2048, 4096} |->
     CASE s = 4 -> "E1" [] s = 8 -> "E2" [] s = 16 -> "E3" [] s = 32 -> "E4"
       [] s = 64 -> "E6" [] s = 128 -> "E10" [] s = 256 -> "E15"
       [] s = 512 -> "E20" [] s = 1024 -> "E30" [] s = 2048 -> "E40"
       [] OTHER -> "E50"]

HddSku ==
  [s \in {32, 64, 128, 256, 512, 1024, 2048, 4096} |->
     CASE s = 32 -> "S4" [] s = 64 -> "S6" [] s = 128 -> "S10"
       [] s = 256 -> "S15" [] s = 512 -> "S20" [] s = 1024 -> "S30"
       [] s = 2048 -> "S40" [] OTHER -> "S50"]

NoSku == ""

sizeToAzureSku(type, size) ==
  IF ~IsFinite(size) THEN NoSku
  ELSE IF type = "ssd"
       THEN (IF size \in DOMAIN SsdSku THEN SsdSku[size] ELSE NoSku)
       ELSE (IF size \in DOMAIN HddSku THEN HddSku[size] ELSE NoSku)

\* (type || "hdd").toLowerCase()
StorageTypes == {"ssd", "SSD", "hdd", ""}
TypeOf(type) ==
  IF type = "" THEN "hdd" ELSE IF type = "SSD" THEN "ssd" ELSE type

\* tbl[size] ?? null
PriceIn(tbl, size) == IF size \in DOMAIN tbl THEN tbl[size] ELSE NULL

HddFloor == 32

\* the HDD size after lines 110-111
HddSize(size, allowed) ==
  IF size = NULL /\ allowed # {}
  THEN (IF Ascending(allowed)[1] < HddFloor THEN HddFloor
        ELSE Ascending(allowed)[1])
  ELSE IF size # NULL /\ size < HddFloor THEN HddFloor ELSE size

StorageOut(type, tbl, size, gb) ==
  [sku |-> sizeToAzureSku(type, size), size |-> size,
   monthlyUSD |-> IF size # NULL THEN PriceIn(tbl, size) ELSE NULL,
   adjusted |-> (size # NULL /\ size # gb)]

getAzureStorageSkuAndMonthlyFromCfg(type, gb, azCfg) ==
  IF ~IsFinite(gb) \/ gb <= 0
  THEN [sku |-> NoSku, size |-> NULL, monthlyUSD |-> NULL, adjusted |-> FALSE]
  ELSE IF TypeOf(type) = "ssd"
  THEN StorageOut("ssd", azCfg.ssd_monthly,
                  nearestCeil(gb, DOMAIN azCfg.ssd_monthly), gb)
  ELSE StorageOut("hdd", azCfg.hdd_monthly,
                  HddSize(nearestCeil(gb, DOMAIN azCfg.hdd_monthly),
                          DOMAIN azCfg.hdd_monthly), gb)

\* --- inputs -------------------------------------------------------------
\* band sizes a table may have, prices in cents, requested sizes:
\* NULL and UNDEF stand for an empty and a non-numeric size field
Bands == {16, 32, 128}
BandPrices == {3, 5}
BandTables == UNION {[S -> BandPrices] : S \in SUBSET Bands}
RequestedSizes == {NULL, UNDEF, 0, 10, 16, 20, 32, 100, 128, 200}
AzureCfgs == [ssd_monthly : BandTables, hdd_monthly : BandTables]

(* ------------------------------------------------------------------ *)
(* The page as a state machine                                         *)
(* ------------------------------------------------------------------ *)

Ready == [op |-> "ready"]

UiInit ==
  /\ ui = Ready
  /\ FinderIdle
  /\ DedupeIdle
  /\ PipeIdle
  /\ NormIdle

\* getAzureStorage(storageType, storageAmtGB) with the table STORAGE_CFG holds
ResolveStorage ==
  /\ ui = Ready
  /\ \E type \in StorageTypes, gb \in RequestedSizes, azCfg \in AzureCfgs :
       ui' = [op |-> "storage", type |-> type, gb |-> gb, cfg |-> azCfg,
              out |-> getAzureStorageSkuAndMonthlyFromCfg(type, gb, azCfg)]
  /\ UNCHANGED <<finderVars, dedupeVars, pipeVars, normVars>>

\* the page waits for the next request
UiDone ==
  /\ ui # Ready
  /\ ui' = Ready
  /\ UNCHANGED <<finderVars, dedupeVars, pipeVars, normVars>>

(* --- compare() of docs/script.js ------------------------------------- *)

ProviderOrder == <<"aws", "azure", "gcp">>

\* `let awsCard;` before its try block has run
CardNone == [state |-> "none"]
\* catch (e) { card = { error: e.message || String(e) } }
ErrorCard(res) == [state |-> "error", error |-> res.err]
\* the card built from the record the finder returned
CardFor(p, rec, req) ==
  IF p = "azure"
  THEN [state |-> "ok", instance |-> rec.instance,
        vcpu |-> Coalesce(rec.vcpu, req.vcpu), ram |-> Coalesce(rec.ram, req.ram),
        pricePerHourUSD |-> rec.pricePerHourUSD]
  ELSE [state |-> "ok", instance |-> rec.instance, vcpu |-> rec.vcpu,
        ram |-> rec.ram, pricePerHourUSD |-> rec.pricePerHourUSD]

\* the arguments compare() gives the finder of provider p
FinderRequest(req, p) ==
  [vcpu |-> req.vcpu, ram |-> req.ram, os |-> req.os, family |-> req.families[p]]

RECURSIVE CompareFrom(_, _, _, _)

\* variant with one try block around the three finders: the first failure
\* ends the function
CaughtOutside(i, data, req, cards, res) ==
  [cards EXCEPT ![ProviderOrder[i]] = ErrorCard(res)]

\* the catch of provider i's own try block; execution goes on after it
Caught(i, data, req, cards, res) ==
  CompareFrom(i + 1, data, req, [cards EXCEPT ![ProviderOrder[i]] = ErrorCard(res)])

Tried(i, data, req, cards, res) ==
  IF res.ok
  THEN CompareFrom(i + 1, data, req,
                   [cards EXCEPT ![ProviderOrder[i]] =
                                    CardFor(ProviderOrder[i], res.rec, req)])
  ELSE Caught(i, data, req, cards, res)

CompareFrom(i, data, req, cards) ==
  IF i > Len(ProviderOrder) THEN cards
  ELSE Tried(i, data, req, cards,
             findBest(ProviderOrder[i], data[ProviderOrder[i]],
                      FinderRequest(req, ProviderOrder[i])))

CompareCards(data, req) == CompareFrom(1, data, req, [p \in Finders |-> CardNone])

\* the "Recommended ..." line of a provider's card
RenderedLine(card) ==
  IF card.state = "ok" THEN [instance |-> card.instance]
  ELSE IF card.state = "error" THEN [error |-> card.error]
  ELSE [blank |-> TRUE]
Rendered(cards) == [p \in Finders |-> RenderedLine(cards[p])]

\* --- inputs -------------------------------------------------------------
CompareLists(p) ==
  IF p = "aws"
  THEN {<<>>, <<Rec(nM5, 2, 8, 1, sLinux, <<>>, <<>>, <<>>)>>,
        <<Rec(nC5, 4, 16, 1, sWindows, <<>>, <<>>, <<>>)>>,
        <<Rec(nM5, 2, 8, 1, sLinux, <<>>, <<>>, <<>>),
          Rec(nC5, 4, 16, 1, sWindows, <<>>, <<>>, <<>>)>>}
  ELSE IF p = "azure"
  THEN {<<>>, <<Rec(nD2, 2, 8, 1, sLinux, sGeneral, <<>>, <<>>)>>,
        <<Rec(nF4, UNDEF, UNDEF, 2, sWindows, <<>>, <<>>, <<>>)>>,
        <<Rec(nD2, 2, 8, 1, sLinux, sGeneral, <<>>, <<>>),
          Rec(nF4, 4, 16, 1, sWindows, sCompute, <<>>, <<>>)>>}
  ELSE {<<>>, <<Rec(nN2, 2, 8, 1, sLinux, sGeneral, <<>>, <<>>)>>,
        <<Rec(nC2, 4, 16, 1, sWindows, sCompute, <<>>, <<>>)>>,
        <<Rec(nN2, 2, 8, 1, sLinux, sGeneral, <<>>, <<>>),
          Rec(nC2, 4, 16, 1, sWindows, sCompute, <<>>, <<>>)>>}
CompareData ==
  [aws : CompareLists("aws"), azure : CompareLists("azure"),
   gcp : CompareLists("gcp")]
CompareRequests ==
  [vcpu : {2}, ram : {8}, os : {sLinux, sWindows},
   families : [Finders -> {<<>>, sCompute}]]

\* compare(): the three finders on the loaded data, then the cards
Compare ==
  /\ ui = Ready
  /\ \E data \in CompareData, req \in CompareRequests :
       ui' = [op |-> "compare", data |-> data, req |-> req,
              cards |-> CompareCards(data, req),
              shown |-> Rendered(CompareCards(data, req))]
  /\ UNCHANGED <<finderVars, dedupeVars, pipeVars, normVars>>

(* --- the loaders of data/prices.json --------------------------------- *)

\* a field of the parsed file: missing, an array, or an object whose
\* `compute` is again missing or an array
Absent == [t |-> "absent"]
ArrayOf(rs) == [t |-> "array", rows |-> rs]
ObjectOf(c) == [t |-> "object", compute |-> c]
IsArray(v) == v.t = "array"

LoadedProviders == {"azure", "aws", "gcp"}

\* raw.azure && raw.aws && raw.gcp && !Array.isArray(raw.azure) && ...
looksWrapped(raw) == \A p \in LoadedProviders : raw[p].t = "object"

\* variant that takes nothing out of a wrapped provider
WrappedComputeNone(v) == <<>>

\* Array.isArray(raw.aws?.compute) ? raw.aws.compute : []
WrappedCompute(v) ==
  IF v.t = "object" /\ IsArray(v.compute) THEN v.compute.rows ELSE <<>>

\* Array.isArray(raw.aws) ? raw.aws : []
FlatArray(v) == IF IsArray(v) THEN v.rows ELSE <<>>

Loaded(azure, aws, gcp) == [ok |-> TRUE, azure |-> azure, aws |-> aws, gcp |-> gcp]
LoadFailed == [ok |-> FALSE, err |-> "unexpected shape"]

\* docs/ui/state.js
loadPricesAndMeta(raw) ==
  IF looksWrapped(raw)
  THEN Loaded(WrappedCompute(raw.azure), WrappedCompute(raw.aws),
              WrappedCompute(raw.gcp))
  ELSE Loaded(FlatArray(raw.azure), FlatArray(raw.aws), FlatArray(raw.gcp))

\* the loader of the single-file page
loadPricesFlat(j) ==
  IF IsArray(j.azure) /\ IsArray(j.aws) /\ IsArray(j.gcp)
  THEN Loaded(j.azure.rows, j.aws.rows, j.gcp.rows)
  ELSE IF looksWrapped(j)
  THEN Loaded(WrappedCompute(j.azure), WrappedCompute(j.aws),
              WrappedCompute(j.gcp))
  ELSE LoadFailed

\* --- inputs -------------------------------------------------------------
LoadedRow(p) ==
  IF p = "aws" THEN Row(nM5, 1, sUsEast1, sLinux)
  ELSE IF p = "azure" THEN Row(nD2, 1, sEastUs, sLinux)
  ELSE Row(nN2, 1, sUsEast1Gcp, sLinux)
FieldsOf(p) ==
  {Absent, ArrayOf(<<>>), ArrayOf(<<LoadedRow(p)>>),
   ObjectOf(ArrayOf(<<LoadedRow(p)>>)), ObjectOf(Absent)}
PriceFiles == [azure : FieldsOf("azure"), aws : FieldsOf("aws"), gcp : FieldsOf("gcp")]
Loaders == {"loadPricesAndMeta", "loadPricesFlat"}

LoadPrices ==
  /\ ui = Ready
  /\ \E raw \in PriceFiles, fn \in Loaders :
       ui' = [op |-> "load", fn |-> fn, raw |-> raw,
              out |-> IF fn = "loadPricesFlat" THEN loadPricesFlat(raw)
                      ELSE loadPricesAndMeta(raw)]
  /\ UNCHANGED <<finderVars, dedupeVars, pipeVars, normVars>>

(* --- docs/ui/matchers.js: the estimator of Azure specs ---------------- *)

nH8 == <<"S","t","a","n","d","a","r","d","_","H","8","a","s">>
nF16 == <<"F","1","6","-","4","a","m","s","_","v","7">>
nE4s == <<"E","4","s">>
nD0 == <<"S","t","a","n","d","a","r","d","_","D","0","s">>
nM32 == <<"s","t","a","n","d","a","r","d","_","m","3","2","m","s">>
nE16 == <<"S","T","A","N","D","A","R","D","_","E","1","6","-","4","a","d","s">>
nB2 == <<"S","t","a","n","d","a","r","d","_","B","2","s">>
nStd == <<"S","t","a","n","d","a","r","d","_","D","S">>
AzureNames ==
  {JsUndefined, JsNull, Str(<<>>)} \cup
  {Str(n) : n \in {nD2, nF4, nH8, nF16, nE4s, nD0, nM32, nE16, nB2, nStd}}

\* `if (!name || typeof name !== "string") return { vcpu: null, ram: null }`
inferAzureCoresRamFromValue(v) ==
  IF ~Truthy(v) THEN [vcpu |-> NULL, ram |-> NULL]
  ELSE inferAzureCoresRamFromName(StringOf(v))

InferAzure ==
  /\ ui = Ready
  /\ \E name \in AzureNames :
       ui' = [op |-> "infer", name |-> name,
              out |-> inferAzureCoresRamFromValue(name)]
  /\ UNCHANGED <<finderVars, dedupeVars, pipeVars, normVars>>

UiNext == ResolveStorage \/ Compare \/ LoadPrices \/ InferAzure \/ UiDone

SpecUi == UiInit /\ [][UiNext]_vars

(* ------------------------------------------------------------------ *)
(* compare() runs that overlap                                         *)
(* ------------------------------------------------------------------ *)

MaxCompares == 3
FamilyOptions == {"", "general", "compute"}
Pages == {"docs/script.js", "single-file"}
NoCards == [state |-> "none"]
CardsOf(family) == [state |-> "shown", family |-> family]

\* a run from its call to its first await: the button is disabled, the
\* selects are read, resetCards() runs, the fetch of prices.json is sent
RunStarted(family) == [pc |-> "prices", family |-> family]
InFlight(r) == r.pc \in {"prices", "info"}
\* variant that lets a run start only when none is in flight
MayStartAlone(runs) == \A k \in DOMAIN runs : ~InFlight(runs[k])
\* nothing in compare() looks at the runs in flight
MayStart(runs) == TRUE

\* DOMContentLoaded: the listeners are set and compare(false) is called
RunsInit ==
  /\ ui \in {[op |-> "runs", page |-> page, family |-> "", disabled |-> TRUE,
               cards |-> NoCards, overlapped |-> FALSE,
               runs |-> <<RunStarted("")>>] : page \in Pages}
  /\ FinderIdle
  /\ DedupeIdle
  /\ PipeIdle
  /\ NormIdle

StartRun(family) ==
  ui' = [ui EXCEPT !.family = family, !.disabled = TRUE, !.cards = NoCards,
                   !.overlapped = @ \/ \E k \in DOMAIN ui.runs : InFlight(ui.runs[k]),
                   !.runs = Append(@, RunStarted(family))]

\* the user picks another family: the change listener calls compare(false)
FamilyChanged ==
  /\ Len(ui.runs) < MaxCompares
  /\ MayStart(ui.runs)
  /\ \E family \in FamilyOptions \ {ui.family} : StartRun(family)
  /\ UNCHANGED <<finderVars, dedupeVars, pipeVars, normVars>>

\* the user clicks Compare, which a disabled button does not let through
CompareClicked ==
  /\ Len(ui.runs) < MaxCompares
  /\ MayStart(ui.runs)
  /\ ~ui.disabled
  /\ \E resetFamilies \in BOOLEAN :
       StartRun(IF resetFamilies THEN "" ELSE ui.family)
  /\ UNCHANGED <<finderVars, dedupeVars, pipeVars, normVars>>

\* the cards are rendered from the inputs the run read when it started, then
\* `finally { btn.disabled = false }`
RunRendered(k) ==
  ui' = [ui EXCEPT !.cards = CardsOf(ui.runs[k].family), !.disabled = FALSE,
                   !.runs[k].pc = "done"]

\* the fetch of prices.json of run k settles: the catch and the finally when
\* it failed, else the rest of the run, up to the next await if there is one
PricesArrived(k) ==
  /\ k \in DOMAIN ui.runs /\ ui.runs[k].pc = "prices"
  /\ \E ok \in BOOLEAN :
       IF ~ok THEN ui' = [ui EXCEPT !.disabled = FALSE, !.runs[k].pc = "failed"]
       ELSE IF ui.page = "single-file" THEN ui' = [ui EXCEPT !.runs[k].pc = "info"]
       ELSE RunRendered(k)
  /\ UNCHANGED <<finderVars, dedupeVars, pipeVars, normVars>>

\* `await loadBuildInfo()` of the single-file page settles; a failure is
\* swallowed, and the run goes on to its end
InfoArrived(k) ==
  /\ k \in DOMAIN ui.runs /\ ui.runs[k].pc = "info"
  /\ RunRendered(k)
  /\ UNCHANGED <<finderVars, dedupeVars, pipeVars, normVars>>

RunsNext ==
  \/ FamilyChanged
  \/ CompareClicked
  \/ \E k \in 1..MaxCompares : PricesArrived(k)
  \/ \E k \in 1..MaxCompares : InfoArrived(k)

SpecRuns == RunsInit /\ [][RunsNext]_vars

(* ------------------------------------------------------------------ *)
(* docs/ui/state.js: STORAGE_CFG over a sequence of loads              *)
(* ------------------------------------------------------------------ *)

\* prices in thousandths of a dollar
DefaultSsd ==
  (4 :> 300) @@ (8 :> 600) @@ (16 :> 1200) @@ (32 :> 2400) @@ (64 :> 4800)
  @@ (128 :> 9600) @@ (256 :> 19200) @@ (512 :> 38400)
DefaultHdd == (32 :> 1536) @@ (64 :> 3008) @@ (128 :> 5888) @@ (256 :> 11328)
sWestUs == <<"w","e","s","t","u","s">>

\* STORAGE_CFG as the first definition of the file declares it
StorageDefaults ==
  [aws |-> [region |-> Str(sUsEast1), ssd_per_gb_month |-> 80,
            hdd_st1_per_gb_month |-> 45],
   azure |-> [region |-> Str(sEastUs), ssd_monthly |-> DefaultSsd,
              hdd_monthly |-> DefaultHdd],
   gcp |-> [region |-> Str(sUsEast1Gcp), ssd_per_gb_month |-> 170,
            hdd_per_gb_month |-> 40]]
\* and as the second definition declares it, without gcp
StorageDefaultsNoGcp ==
  [aws |-> StorageDefaults.aws, azure |-> StorageDefaults.azure]

\* a block of the file: absent, or an object whose missing fields are
\* undefined (UNDEF for a number, JsUndefined for a string, NoTable for a table)
NoBlock == [has |-> FALSE]
NoTable == [has |-> FALSE]
TableOf(t) == [has |-> TRUE, t |-> t]
RateBlock(region, ssd, hdd) ==
  [has |-> TRUE, region |-> region, ssd |-> ssd, hdd |-> hdd]
DiskBlock(region, ssd_monthly, hdd_monthly) ==
  [has |-> TRUE, region |-> region, ssd_monthly |-> ssd_monthly,
   hdd_monthly |-> hdd_monthly]
StorageBlock(aws, azure, gcp) ==
  [has |-> TRUE, aws |-> aws, azure |-> azure, gcp |-> gcp]

\* a ?? b for a string value
CoalesceJs(a, b) == IF a.t \in {"null", "undefined"} THEN b ELSE a
\* block.field, undefined when the block is absent
RegionIn(block) == IF block.has THEN block.region ELSE JsUndefined
RateIn(block, f) == IF block.has THEN block[f] ELSE UNDEF
TableIn(block, f) == IF block.has THEN block[f] ELSE NoTable
\* raw.storage.aws || {} and its like
BlockIn(storage, p) == IF storage.has THEN storage[p] ELSE NoBlock

\* { ...(current || {}), ...(incoming || {}) }
SpreadOver(current, incoming) ==
  IF ~incoming.has THEN current
  ELSE [k \in DOMAIN current \cup DOMAIN incoming.t |->
          IF k \in DOMAIN incoming.t THEN incoming.t[k] ELSE current[k]]
\* incoming ?? current
TableOr(current, incoming) == IF incoming.has THEN incoming.t ELSE current

\* lines 75-107: the merge of the first definition of loadPricesAndMeta
mergeStorage(cfg, storage) ==
  [aws |-> [region |-> CoalesceJs(RegionIn(BlockIn(storage, "aws")), cfg.aws.region),
            ssd_per_gb_month |->
              Coalesce(RateIn(BlockIn(storage, "aws"), "ssd"), cfg.aws.ssd_per_gb_month),
            hdd_st1_per_gb_month |->
              Coalesce(RateIn(BlockIn(storage, "aws"), "hdd"), cfg.aws.hdd_st1_per_gb_month)],
   azure |-> [region |-> CoalesceJs(RegionIn(BlockIn(storage, "azure")), cfg.azure.region),
              ssd_monthly |->
                SpreadOver(cfg.azure.ssd_monthly,
                           TableIn(BlockIn(storage, "azure"), "ssd_monthly")),
              hdd_monthly |->
                SpreadOver(cfg.azure.hdd_monthly,
                           TableIn(BlockIn(storage, "azure"), "hdd_monthly"))],
   gcp |-> [region |-> CoalesceJs(RegionIn(BlockIn(storage, "gcp")), cfg.gcp.region),
            ssd_per_gb_month |->
              Coalesce(RateIn(BlockIn(storage, "gcp"), "ssd"), cfg.gcp.ssd_per_gb_month),
            hdd_per_gb_month |->
              Coalesce(RateIn(BlockIn(storage, "gcp"), "hdd"), cfg.gcp.hdd_per_gb_month)]]

\* lines 143-164: the second definition, `if (data.storage?.aws ||
\* data.storage?.azure) STORAGE_CFG = { aws: {...}, azure: {...} }`
replaceStorage(cfg, storage) ==
  IF ~(BlockIn(storage, "aws").has \/ BlockIn(storage, "azure").has) THEN cfg
  ELSE
  [aws |-> [region |-> CoalesceJs(RegionIn(BlockIn(storage, "aws")), cfg.aws.region),
            ssd_per_gb_month |->
              Coalesce(RateIn(BlockIn(storage, "aws"), "ssd"), cfg.aws.ssd_per_gb_month),
            hdd_st1_per_gb_month |->
              Coalesce(RateIn(BlockIn(storage, "aws"), "hdd"), cfg.aws.hdd_st1_per_gb_month)],
   azure |-> [region |-> CoalesceJs(RegionIn(BlockIn(storage, "azure")), cfg.azure.region),
              ssd_monthly |->
                TableOr(cfg.azure.ssd_monthly,
                        TableIn(BlockIn(storage, "azure"), "ssd_monthly")),
              hdd_monthly |->
                TableOr(cfg.azure.hdd_monthly,
                        TableIn(BlockIn(storage, "azure"), "hdd_monthly"))]]

\* the storage blocks a prices.json may carry
StorageFiles ==
  {NoBlock,
   StorageBlock(NoBlock, NoBlock, NoBlock),
   StorageBlock(RateBlock(JsUndefined, 100, UNDEF), NoBlock, NoBlock),
   StorageBlock(NoBlock, DiskBlock(Str(sWestUs), NoTable, NoTable), NoBlock),
   StorageBlock(NoBlock, DiskBlock(JsUndefined, TableOf(4 :> 500), NoTable), NoBlock),
   StorageBlock(NoBlock, DiskBlock(JsUndefined, TableOf(1024 :> 76800), TableOf(32 :> 2000)), NoBlock),
   StorageBlock(NoBlock, DiskBlock(JsUndefined, NoTable, TableOf(512 :> 22000)), NoBlock),
   StorageBlock(NoBlock, NoBlock, RateBlock(Str(sUsEast1Gcp), 200, 50))}

MaxLoads == 3
StateVersions == {"merge", "replace"}

\* the module is loaded: STORAGE_CFG holds its defaults
StorageInit ==
  /\ ui \in {[op |-> "cfg", version |-> v, loads |-> 0, storage |-> NoBlock,
               before |-> IF v = "merge" THEN StorageDefaults ELSE StorageDefaultsNoGcp,
               cfg |-> IF v = "merge" THEN StorageDefaults ELSE StorageDefaultsNoGcp] :
             v \in StateVersions}
  /\ FinderIdle
  /\ DedupeIdle
  /\ PipeIdle
  /\ NormIdle

\* one call of loadPricesAndMeta, as far as STORAGE_CFG goes
LoadStorage ==
  /\ ui.loads < MaxLoads
  /\ \E storage \in StorageFiles :
       ui' = [ui EXCEPT !.loads = @ + 1, !.storage = storage, !.before = ui.cfg,
                        !.cfg = IF ui.version = "merge"
                                THEN mergeStorage(ui.cfg, storage)
                                ELSE replaceStorage(ui.cfg, storage)]
  /\ UNCHANGED <<finderVars, dedupeVars, pipeVars, normVars>>

SpecStorage == StorageInit /\ [][LoadStorage]_vars

(* ------------------------------------------------------------------ *)
(* C13: banded storage resolver                                         *)
(* ------------------------------------------------------------------ *)

StorageTable ==
  IF TypeOf(ui.type) = "ssd" THEN ui.cfg.ssd_monthly ELSE ui.cfg.hdd_monthly

StorageCase ==
  /\ ui.op = "storage"
  /\ ui.gb # UNDEF /\ ui.gb > 0
  /\ DOMAIN StorageTable # {}

\* the smallest band that is at least gb, or the largest band
BandFor(gb, B) ==
  IF \E b \in B : b >= gb
  THEN CHOOSE b \in B : b >= gb /\ \A c \in B : c >= gb => b <= c
  ELSE CHOOSE b \in B : \A c \in B : c <= b

BilledFor(type, band) ==
  IF TypeOf(type) # "ssd" /\ band < 32 THEN 32 ELSE band

\* C13 as stated: for a positive finite size and a non-empty table, SSD and
\* HDD alike, the resolver returns the smallest band that is at least the
\* size (or the largest band), that band's price, and adjusted exactly when
\* the band differs from the size.
C13_BandedAlike ==
  StorageCase =>
    /\ ui.out.size = BandFor(ui.gb, DOMAIN StorageTable)
    /\ ui.out.monthlyUSD = StorageTable[BandFor(ui.gb, DOMAIN StorageTable)]
    /\ ui.out.adjusted = (BandFor(ui.gb, DOMAIN StorageTable) # ui.gb)

\* C13 amended: the resolver picks the smallest band that is at least the
\* size (or the largest band); for HDD a band below 32 GB is replaced by
\* 32 GB.  It returns the price the table holds for the resulting size, none
\* if the table has no such key, and adjusted exactly when the resulting
\* size differs from the requested one.
C13_BandedHddFloor ==
  StorageCase =>
    /\ ui.out.size = BilledFor(ui.type, BandFor(ui.gb, DOMAIN StorageTable))
    /\ ui.out.monthlyUSD =
         (IF ui.out.size \in DOMAIN StorageTable
          THEN StorageTable[ui.out.size] ELSE NULL)
    /\ ui.out.adjusted = (ui.out.size # ui.gb)

C13_Witness ==
  /\ StorageCase
  /\ ui.type = "hdd" /\ ui.gb = 100
  /\ DOMAIN StorageTable = {16, 32, 128}
  /\ ui.out.size = 128 /\ ui.out.adjusted
  /\ ui.out.monthlyUSD = StorageTable[128]

(* ------------------------------------------------------------------ *)
(* Family classifiers of the fetch scripts                             *)
(* ------------------------------------------------------------------ *)

\* scripts/lib/azure.js: categorizeByInstanceName(instance = "")
categorizeAzure(v) ==
  Str(categorizeByInstanceName(IF v.t = "undefined" THEN <<>> ELSE StringOf(v)))

\* scripts/lib/gcp.js
GCP_SERIES_ALLOW ==
  [general |-> {<<"E","2">>, <<"N","1">>, <<"N","2">>, <<"N","2","D">>, <<"N","4">>, <<"N","4","A">>, <<"N","4","D">>, <<"T","2","A">>, <<"T","2","D">>},
   compute |-> {<<"C","2">>, <<"C","2","D">>, <<"C","3">>, <<"C","3","D">>, <<"C","4">>, <<"C","4","D">>, <<"C","4","A">>, <<"H","3">>, <<"H","4","D">>},
   memory |-> {<<"M","1">>, <<"M","2">>, <<"M","3">>, <<"M","4">>}]

sSTANDARD == <<"S","T","A","N","D","A","R","D">>
sHIGHCPU == <<"H","I","G","H","C","P","U">>
sHIGHMEM == <<"H","I","G","H","M","E","M">>
sULTRAMEM == <<"U","L","T","R","A","M","E","M">>
sMEGAMEM == <<"M","E","G","A","M","E","M">>
CLASS_TO_CATEGORY ==
  [cls \in {sSTANDARD, sHIGHCPU, sHIGHMEM, sULTRAMEM, sMEGAMEM} |->
     IF cls = sSTANDARD THEN sGeneral
     ELSE IF cls = sHIGHCPU THEN sCompute ELSE sMemory]

sCustomDash == <<"c","u","s","t","o","m","-">>
\* raw.toUpperCase().replace(/-/g, "_")
GcpToken(raw) ==
  [i \in 1..Len(raw) |-> IF raw[i] = "-" THEN "_" ELSE UpperChar(raw[i])]
IsUpperAlnum(c) == IsDigit(c) \/ \E i \in Letters : UpperChars[i] = c
AllOf(q, i, j, Ok(_)) == i <= j /\ \A k \in i..j : Ok(q[k])
Underscores(tok) == {i \in 1..Len(tok) : tok[i] = "_"}
FirstOf(S) == CHOOSE i \in S : \A j \in S : i <= j
LastOf(S) == CHOOSE i \in S : \A j \in S : j <= i
\* tok.match(/^([A-Z0-9]+)_(STANDARD|HIGHCPU|HIGHMEM|ULTRAMEM|MEGAMEM)_(\d+)$/)
GcpMatches(tok) ==
  /\ Cardinality(Underscores(tok)) = 2
  /\ AllOf(tok, 1, FirstOf(Underscores(tok)) - 1, IsUpperAlnum)
  /\ SubSeq(tok, FirstOf(Underscores(tok)) + 1, LastOf(Underscores(tok)) - 1)
       \in DOMAIN CLASS_TO_CATEGORY
  /\ AllOf(tok, LastOf(Underscores(tok)) + 1, Len(tok), IsDigit)
GcpSeries(tok) == SubSeq(tok, 1, FirstOf(Underscores(tok)) - 1)
GcpClass(tok) ==
  SubSeq(tok, FirstOf(Underscores(tok)) + 1, LastOf(Underscores(tok)) - 1)

\* variant that hands back the class word of the name as it stands
GcpCategoryRaw(tok) == Str(GcpClass(tok))

GcpCategoryOf(tok) ==
  IF GcpClass(tok) \in DOMAIN CLASS_TO_CATEGORY
  THEN Str(CLASS_TO_CATEGORY[GcpClass(tok)])
  ELSE IF GcpSeries(tok) \in GCP_SERIES_ALLOW.compute THEN Str(sCompute)
  ELSE IF GcpSeries(tok) \in GCP_SERIES_ALLOW.memory THEN Str(sMemory)
  ELSE IF GcpSeries(tok) \in GCP_SERIES_ALLOW.general THEN Str(sGeneral)
  ELSE JsNull

classifyGcpInstance(v) ==
  IF ~Truthy(v) THEN JsNull
  ELSE IF StartsWith(ToLower(StringOf(v)), sCustomDash) THEN JsNull
  ELSE IF ~GcpMatches(GcpToken(StringOf(v))) THEN JsNull
  ELSE GcpCategoryOf(GcpToken(StringOf(v)))

\* scripts/lib/gcp.js, the later definition of classifyGcpInstance: the
\* category is read off the leading series alone
GcpMemoryLeads == {<<"M","1">>, <<"M","2">>, <<"M","3">>, <<"M","4">>}
GcpComputeLeads == {<<"C","2">>, <<"C","2","D">>, <<"H","3">>, <<"H","4","D">>}
generalFamilies ==
  {<<"C","3">>, <<"C","3","D">>, <<"C","4">>, <<"C","4","D">>, <<"C","4","A">>,
   <<"N","1">>, <<"N","2">>, <<"N","2","D">>, <<"N","4">>, <<"N","4","A">>,
   <<"N","4","D">>, <<"T","2","A">>, <<"T","2","D">>, <<"E","2">>}
classifyGcpInstanceSeries(v) ==
  IF StartsWithAny(ToUpper(StringOf(v)), GcpMemoryLeads) THEN Str(sMemory)
  ELSE IF StartsWithAny(ToUpper(StringOf(v)), GcpComputeLeads) THEN Str(sCompute)
  ELSE IF StartsWithAny(ToUpper(StringOf(v)), generalFamilies) THEN Str(sGeneral)
  ELSE JsNull

\* scripts/fetch-prices.js: each pattern is /^standard_<series>/i
AZ_SERIES_ALLOW ==
  [general |->
  {<<"s","t","a","n","d","a","r","d","_","d","v","5">>,
   <<"s","t","a","n","d","a","r","d","_","d","v","6">>,
   <<"s","t","a","n","d","a","r","d","_","d","v","7">>,
   <<"s","t","a","n","d","a","r","d","_","d","s","v","5">>,
   <<"s","t","a","n","d","a","r","d","_","d","s","v","6">>,
   <<"s","t","a","n","d","a","r","d","_","d","s","v","7">>,
   <<"s","t","a","n","d","a","r","d","_","d","a","s","v","5">>,
   <<"s","t","a","n","d","a","r","d","_","d","a","s","v","6">>,
   <<"s","t","a","n","d","a","r","d","_","d","a","s","v","7">>,
   <<"s","t","a","n","d","a","r","d","_","d","a","d","s","v","5">>,
   <<"s","t","a","n","d","a","r","d","_","d","a","d","s","v","6">>,
   <<"s","t","a","n","d","a","r","d","_","d","a","d","s","v","7">>,
   <<"s","t","a","n","d","a","r","d","_","d","p","s","v","5">>,
   <<"s","t","a","n","d","a","r","d","_","d","p","s","v","6">>,
   <<"s","t","a","n","d","a","r","d","_","b","s","v","2">>,
   <<"s","t","a","n","d","a","r","d","_","b","a","s","v","2">>,
   <<"s","t","a","n","d","a","r","d","_","b","p","s","v","2">>},
   compute |->
  {<<"s","t","a","n","d","a","r","d","_","f","s","v","2">>,
   <<"s","t","a","n","d","a","r","d","_","f","a","v","6">>,
   <<"s","t","a","n","d","a","r","d","_","f","a","m","s","v","6">>,
   <<"s","t","a","n","d","a","r","d","_","f","a","m","d","s","v","6">>,
   <<"s","t","a","n","d","a","r","d","_","f","a","v","7">>,
   <<"s","t","a","n","d","a","r","d","_","f","a","m","s","v","7">>,
   <<"s","t","a","n","d","a","r","d","_","f","a","m","d","s","v","7">>,
   <<"s","t","a","n","d","a","r","d","_","f","a","s","v","7">>,
   <<"s","t","a","n","d","a","r","d","_","f","a","d","s","v","7">>},
   memory |->
  {<<"s","t","a","n","d","a","r","d","_","e","v","5">>,
   <<"s","t","a","n","d","a","r","d","_","e","s","v","5">>,
   <<"s","t","a","n","d","a","r","d","_","e","d","v","5">>,
   <<"s","t","a","n","d","a","r","d","_","e","b","s","v","5">>}]

\* String(armSkuName || productName || '').toLowerCase()
SkuNameOf(armSkuName, productName) ==
  ToLower(IF Truthy(armSkuName) THEN armSkuName.s
          ELSE IF Truthy(productName) THEN productName.s ELSE <<>>)

azureCategoryOfName(name) ==
  IF StartsWithAny(name, AZ_SERIES_ALLOW.general) THEN Str(sGeneral)
  ELSE IF StartsWithAny(name, AZ_SERIES_ALLOW.compute) THEN Str(sCompute)
  ELSE IF StartsWithAny(name, AZ_SERIES_ALLOW.memory) THEN Str(sMemory)
  ELSE JsNull

azureCategoryFromSkuName(armSkuName, productName) ==
  azureCategoryOfName(SkuNameOf(armSkuName, productName))

\* --- inputs -------------------------------------------------------------
idD2sV5 == <<"S","t","a","n","d","a","r","d","_","D","2","s","_","v","5">>
idB2s == <<"S","t","a","n","d","a","r","d","_","B","2","s">>
idE4 == <<"E","4","s">>
idDv5 == <<"s","t","a","n","d","a","r","d","_","d","v","5">>
idFsv2 == <<"S","t","a","n","d","a","r","d","_","F","s","v","2">>
idEv5 == <<"S","T","A","N","D","A","R","D","_","E","V","5","_","x">>
idE2Std == <<"e","2","-","s","t","a","n","d","a","r","d","-","2">>
idC2Cpu == <<"c","2","-","h","i","g","h","c","p","u","-","4">>
idM1Ultra == <<"m","1","-","u","l","t","r","a","m","e","m","-","4","0">>
idCustom == <<"c","u","s","t","o","m","-","2","-","4","0","9","6">>
idN2Short == <<"n","2","_","s","t","a","n","d","a","r","d">>
idE2Medium == <<"e","2","-","m","e","d","i","u","m">>
idDots == <<"a",".","b","-","s","t","a","n","d","a","r","d","-","2">>
idC2Std == <<"c","2","-","s","t","a","n","d","a","r","d","-","4">>
idM3Mega == <<"m","3","-","m","e","g","a","m","e","m","-","6","4">>
idN2Mem == <<"n","2","-","h","i","g","h","m","e","m","-","8">>
idZ9Std == <<"z","9","-","s","t","a","n","d","a","r","d","-","2">>

Identifiers ==
  {JsUndefined, JsNull, Str(<<>>)} \cup
  {Str(x) : x \in {idD2sV5, idB2s, idE4, idDv5, idFsv2, idEv5, idE2Std, idC2Cpu, idM1Ultra, idCustom, idN2Short, idE2Medium, idDots,
                  idC2Std, idM3Mega, idN2Mem, idZ9Std}}

Classifiers == {"categorizeByInstanceName", "classifyGcpInstance",
                "classifyGcpInstanceSeries",
                "azureCategoryFromSkuName"}

NormStart == [op |-> "start"]

NormInit ==
  /\ norm = NormStart
  /\ FinderIdle
  /\ DedupeIdle
  /\ PipeIdle
  /\ UiIdle

ClassifyAzure ==
  /\ norm = NormStart
  /\ \E id \in Identifiers :
       norm' = [op |-> "classify", fn |-> "categorizeByInstanceName",
                id |-> id, out |-> categorizeAzure(id)]
  /\ UNCHANGED <<finderVars, dedupeVars, pipeVars, uiVars>>

ClassifyGcp ==
  /\ norm = NormStart
  /\ \E id \in Identifiers :
       norm' = [op |-> "classify", fn |-> "classifyGcpInstance",
                id |-> id, out |-> classifyGcpInstance(id)]
  /\ UNCHANGED <<finderVars, dedupeVars, pipeVars, uiVars>>

ClassifyGcpSeries ==
  /\ norm = NormStart
  /\ \E id \in Identifiers :
       norm' = [op |-> "classify", fn |-> "classifyGcpInstanceSeries",
                id |-> id, out |-> classifyGcpInstanceSeries(id)]
  /\ UNCHANGED <<finderVars, dedupeVars, pipeVars, uiVars>>

ClassifyAzureSku ==
  /\ norm = NormStart
  /\ \E id \in Identifiers, productName \in Identifiers :
       norm' = [op |-> "classify", fn |-> "azureCategoryFromSkuName",
                id |-> id, productName |-> productName,
                out |-> azureCategoryFromSkuName(id, productName)]
  /\ UNCHANGED <<finderVars, dedupeVars, pipeVars, uiVars>>

NormDone ==
  /\ norm # NormStart
  /\ norm' = NormStart
  /\ UNCHANGED <<finderVars, dedupeVars, pipeVars, uiVars>>

(* --- the normalizers of the provider fetch scripts ------------------- *)

\* scripts/lib/azure.js widenAzureSeries: families A, B, D, E, F, L, M, N
WideLeads == {"A", "B", "D", "E", "F", "L", "M", "N"}
widenAzureSeries(instance) ==
  /\ StripStandard(ToLower(instance)) # <<>>
  /\ UpperChar(StripStandard(ToLower(instance))[1]) \in WideLeads

\* a retail item that is hourly and passes the textual exclusions:
\* `instance` is (skuName.split(" ")[0] || armSku || "").trim()
AzureKept(it) ==
  /\ it.instance # <<>>
  /\ widenAzureSeries(it.instance)
  /\ it.unitPrice > 0
AzurePreRow(it) == Row(it.instance, it.unitPrice, sEastUs, it.os)
AzurePreOf(kept) == [i \in DOMAIN kept |-> AzurePreRow(kept[i])]
AzureNormalized(retail, skuMap) ==
  ComputeOf("azure",
            dedupeCheapestByKey(AzurePreOf(SelectSeq(retail, AzureKept)), "map"),
            skuMap)

\* classifyGcpInstance of scripts/providers/gcp.fetch.js: by name prefix
GcpMemoryPrefixes == {<<"M","1">>, <<"M","2">>, <<"M","3">>, <<"M","4">>}
GcpComputePrefixes == {<<"C","2">>, <<"C","2","D">>, <<"H","3">>, <<"H","4","D">>}
GcpGeneralPrefixes ==
  {<<"C","3">>, <<"C","3","D">>, <<"C","4">>, <<"C","4","D">>, <<"C","4","A">>, <<"N","1">>, <<"N","2">>,
   <<"N","2","D">>, <<"N","4">>, <<"N","4","A">>, <<"N","4","D">>, <<"T","2","A">>, <<"T","2","D">>, <<"E","2">>}

\* variant that tags what it does not know instead of returning null
classifyGcpByPrefixOther(instance) ==
  IF StartsWithAny(ToUpper(instance), GcpMemoryPrefixes) THEN Str(sMemory)
  ELSE IF StartsWithAny(ToUpper(instance), GcpComputePrefixes) THEN Str(sCompute)
  ELSE IF StartsWithAny(ToUpper(instance), GcpGeneralPrefixes) THEN Str(sGeneral)
  ELSE Str(sOther)

classifyGcpByPrefix(instance) ==
  IF StartsWithAny(ToUpper(instance), GcpMemoryPrefixes) THEN Str(sMemory)
  ELSE IF StartsWithAny(ToUpper(instance), GcpComputePrefixes) THEN Str(sCompute)
  ELSE IF StartsWithAny(ToUpper(instance), GcpGeneralPrefixes) THEN Str(sGeneral)
  ELSE JsNull

\* item.machine_type.replace(/-/g, "_")
GcpInstanceOf(mt) == [i \in 1..Len(mt) |-> IF mt[i] = "-" THEN "_" ELSE mt[i]]

GcpKept(item) ==
  /\ item.region = sUsEast1Gcp
  /\ item.machine_type # <<>>
  /\ classifyGcpByPrefix(GcpInstanceOf(item.machine_type)) # JsNull
  /\ item.price_per_hour > 0
  /\ item.vcpu # 0 /\ item.memory_gb # 0
GcpRow(item) ==
  [instance |-> GcpInstanceOf(item.machine_type),
   category |-> classifyGcpByPrefix(GcpInstanceOf(item.machine_type)).s,
   vcpu |-> item.vcpu, ram |-> item.memory_gb,
   pricePerHourUSD |-> item.price_per_hour, region |-> sUsEast1Gcp,
   os |-> IF Includes(ToLower(item.os), sWin) THEN sWindows ELSE sLinux]
GcpRowsOf(kept) == [i \in DOMAIN kept |-> GcpRow(kept[i])]
GcpNormalized(skus) ==
  dedupeCheapestByKey(GcpRowsOf(SelectSeq(skus, GcpKept)), "map")

\* --- inputs -------------------------------------------------------------
MaxRaw == 2
idH8 == <<"S","t","a","n","d","a","r","d","_","H","8","a","s">>
idA2Gpu == <<"a","2","-","h","i","g","h","g","p","u","-","1","g">>
sEuWest1 == <<"e","u","r","o","p","e","-","w","e","s","t","1">>
AzureRetail ==
  [instance : {idD2sV5, idB2s, idH8, <<>>}, unitPrice : {0, 1, 2},
   os : {sLinux}]
GcpSkus ==
  [region : {sUsEast1Gcp}, machine_type : {idE2Std, idC2Cpu, idCustom, idA2Gpu},
   os : {sLinux}, price_per_hour : {0, 1}, vcpu : {0, 2}, memory_gb : {8}]
    \cup
  [region : {sEuWest1}, machine_type : {idE2Std}, os : {sWindows},
   price_per_hour : {1}, vcpu : {2}, memory_gb : {8}]
RawLists(S) == UNION {[1..n -> S] : n \in 0..MaxRaw}

\* main of scripts/providers/azure.fetch.js, from the retail items on
NormalizeAzure ==
  /\ norm = NormStart
  /\ \E retail \in RawLists(AzureRetail), skuMap \in SkuMaps :
       norm' = [op |-> "normalize", p |-> "azure", raw |-> retail,
                wrote |-> ~warnAndSkipWriteOnEmpty(AzureNormalized(retail, skuMap)),
                compute |-> AzureNormalized(retail, skuMap)]
  /\ UNCHANGED <<finderVars, dedupeVars, pipeVars, uiVars>>

\* main of scripts/providers/gcp.fetch.js, from the price list on
NormalizeGcp ==
  /\ norm = NormStart
  /\ \E skus \in RawLists(GcpSkus) :
       norm' = [op |-> "normalize", p |-> "gcp", raw |-> skus,
                wrote |-> ~warnAndSkipWriteOnEmpty(GcpNormalized(skus)),
                compute |-> GcpNormalized(skus)]
  /\ UNCHANGED <<finderVars, dedupeVars, pipeVars, uiVars>>

(* --- the Azure retail items, with their unit and their names --------- *)

IsWordChar(c) == IsDigit(c) \/ c = "_" \/ c \in DOMAIN LowerOf \/ c \in DOMAIN UpperOf
\* /\bw\b/.test(s)
WordBounded(s, w) ==
  \E i \in 1..Len(s) :
    /\ MatchAt(s, w, i)
    /\ i = 1 \/ ~IsWordChar(s[i - 1])
    /\ i + Len(w) > Len(s) \/ ~IsWordChar(s[i + Len(w)])
\* /a\s*b/.test(s), and /a\s*\/?\s*b/ when a slash may stand in the gap
GapMatch(s, a, b, slash) ==
  \E i \in 1..Len(s), j \in 1..Len(s) :
    /\ MatchAt(s, a, i) /\ j >= i + Len(a) /\ MatchAt(s, b, j)
    /\ \A k \in (i + Len(a))..(j - 1) : s[k] = " " \/ (slash /\ s[k] = "/")
    /\ Cardinality({k \in (i + Len(a))..(j - 1) : s[k] = "/"}) <= 1

\* [productName, skuName, meterName, armSkuName, retailPriceType]
\*   .filter(Boolean).join(" ").toLowerCase()
RetailBlob(it) ==
  ToLower(JoinTruthy(<<it.productName, it.skuName, it.meterName,
                       it.armSkuName, it.retailPriceType>>))
\* the six `continue` tests on the blob
TextExcluded(blob) ==
  \/ WordBounded(blob, <<"p","r","o","m","o">>)
  \/ GapMatch(blob, <<"d","e","v">>, <<"t","e","s","t">>, TRUE)
  \/ Includes(blob, sSpot) \/ GapMatch(blob, <<"l","o","w">>, <<"p","r","i","o","r","i","t","y">>, FALSE)
  \/ Includes(blob, <<"r","e","s","e","r","v","a","t","i","o","n">>) \/ Includes(blob, sReserved)
  \/ GapMatch(blob, <<"s","a","v","i","n","g","s">>, <<"p","l","a","n">>, FALSE)
  \/ WordBounded(blob, <<"a","h","b">>) \/ GapMatch(blob, <<"h","y","b","r","i","d">>, <<"b","e","n","e","f","i","t">>, FALSE)
\* (it.unitOfMeasure || "").toLowerCase().includes("hour")
UnitHourly(it) == Includes(ToLower(it.unitOfMeasure), <<"h","o","u","r">>)

\* skuName.split(" ")[0]
FirstWord(t) ==
  IF \E i \in 1..Len(t) : t[i] = " "
  THEN SubSeq(t, 1, MinOf({i \in 1..Len(t) : t[i] = " "}) - 1)
  ELSE t
\* (skuName.split(" ")[0] || armSku || "").trim()
RetailInstance(it) ==
  IF FirstWord(it.skuName) # <<>> THEN FirstWord(it.skuName) ELSE it.armSkuName
\* /windows/i.test(productName) ? "Windows" : "Linux"
detectOsFromProductName(productName) ==
  IF Includes(ToLower(productName), sWindowsLower) THEN sWindows ELSE sLinux

\* the tests both versions of main share
RetailPriced(it) ==
  /\ RetailInstance(it) # <<>>
  /\ widenAzureSeries(RetailInstance(it))
  /\ it.unitPrice > 0
\* main of scripts/providers/azure.fetch.js
RetailKept(it) == RetailPriced(it)
\* main of the version with the strict PAYG filter
RetailKeptStrict(it) ==
  UnitHourly(it) /\ ~TextExcluded(RetailBlob(it)) /\ RetailPriced(it)

\* the row pushed for raw[i]; `from` remembers the entry it was made of
RetailRow(raw, i) ==
  [instance |-> RetailInstance(raw[i]), pricePerHourUSD |-> raw[i].unitPrice,
   region |-> sEastUs, os |-> detectOsFromProductName(raw[i].productName),
   from |-> i]
RECURSIVE RetailPre(_, _, _)
RetailPre(raw, i, strict) ==
  IF i > Len(raw) THEN <<>>
  ELSE IF (IF strict THEN RetailKeptStrict(raw[i]) ELSE RetailKept(raw[i]))
       THEN <<RetailRow(raw, i)>> \o RetailPre(raw, i + 1, strict)
       ELSE RetailPre(raw, i + 1, strict)
RetailCheapest(raw, strict) == dedupeCheapestByKey(RetailPre(raw, 1, strict), "map")

pSeries == <<"D","s","v","5"," ","S","e","r","i","e","s">>
pWindowsSeries == <<"D","s","v","5"," ","S","e","r","i","e","s"," ","W","i","n","d","o","w","s">>
pPromo == <<"D","s","v","5"," ","P","r","o","m","o">>
pPromotional == <<"D","s","v","5"," ","P","r","o","m","o","t","i","o","n","a","l">>
pDevTest == <<"D","s","v","5"," ","D","e","v","T","e","s","t">>
kPlain == <<"D","2","s"," ","v","5">>
kSpot == <<"D","2","s"," ","v","5"," ","S","p","o","t">>
kLowPriority == <<"D","2","s"," ","v","5"," ","L","o","w"," ","P","r","i","o","r","i","t","y">>
mPlain == <<"D","2","s"," ","v","5">>
mReserved == <<"D","2","s"," ","v","5"," ","R","e","s","e","r","v","e","d">>
mSavingsPlan == <<"D","2","s"," ","v","5"," ","S","a","v","i","n","g","s"," ","P","l","a","n">>
uHour == <<"1"," ","H","o","u","r">>
uMonth == <<"1","/","M","o","n","t","h">>
sConsumption == <<"C","o","n","s","u","m","p","t","i","o","n">>
RetailItem(productName, skuName, meterName, unitOfMeasure, unitPrice) ==
  [productName |-> productName, skuName |-> skuName, meterName |-> meterName,
   armSkuName |-> idD2sV5, retailPriceType |-> sConsumption,
   unitOfMeasure |-> unitOfMeasure, unitPrice |-> unitPrice]
RetailItems ==
  {RetailItem(pSeries, kPlain, mPlain, uHour, 2),
   RetailItem(pWindowsSeries, kPlain, mPlain, uHour, 2),
   RetailItem(pSeries, kSpot, mPlain, uHour, 1),
   RetailItem(pSeries, kLowPriority, mPlain, uHour, 1),
   RetailItem(pSeries, kPlain, mPlain, uMonth, 1),
   RetailItem(pPromo, kPlain, mPlain, uHour, 1),
   RetailItem(pPromotional, kPlain, mPlain, uHour, 1),
   RetailItem(pDevTest, kPlain, mPlain, uHour, 1),
   RetailItem(pSeries, kPlain, mReserved, uHour, 1),
   RetailItem(pSeries, kPlain, mSavingsPlan, uHour, 1),
   RetailItem(pSeries, kPlain, mPlain, uHour, 0)}
RetailScripts == {"providers/azure.fetch.js", "azure.fetch.js strict"}

\* main up to the dedupe, from the retail items on
FilterRetail ==
  /\ norm = NormStart
  /\ \E raw \in RawLists(RetailItems), script \in RetailScripts :
       norm' = [op |-> "retail", script |-> script, raw |-> raw,
                cheapest |-> RetailCheapest(raw, script = "azure.fetch.js strict"),
                wrote |-> ~warnAndSkipWriteOnEmpty(
                             RetailCheapest(raw, script = "azure.fetch.js strict"))]
  /\ UNCHANGED <<finderVars, dedupeVars, pipeVars, uiVars>>

(* --- the price of an AWS SKU ------------------------------------------ *)

sHrs == <<"H","r","s">>
sQuantity == <<"Q","u","a","n","t","i","t","y">>
sZero == <<"0">>
sHundred == <<"1","0","0">>
sInf == <<"I","n","f">>
dOnDemand == <<"O","n"," ","D","e","m","a","n","d">>
dUpfront == <<"U","p","f","r","o","n","t"," ","F","e","e">>


\* /reserved|upfront|dedicated host|dedicated|savings plan/i.test(desc)
isBad(desc) ==
  \E w \in {<<"r","e","s","e","r","v","e","d">>, <<"u","p","f","r","o","n","t">>,
             <<"d","e","d","i","c","a","t","e","d">>,
             <<"s","a","v","i","n","g","s"," ","p","l","a","n">>} :
    Includes(ToLower(desc), w)

\* unit === "hrs" && begin === "0" && end === "Inf"
isHourly(dim) ==
  ToLower(dim.unit) = <<"h","r","s">> /\ dim.beginRange = sZero /\ dim.endRange = sInf

\* scripts/fetch-prices.js: the dimensions the loop returns from; USD absent
\* is Number(undefined), NaN
RangedHits(dims) ==
  {k \in DOMAIN dims : isHourly(dims[k]) /\ ~isBad(dims[k].description)
                        /\ dims[k].USD # UNDEF}
pickHourlyUsdRanged(dims) ==
  IF RangedHits(dims) = {} THEN NULL ELSE dims[MinOf(RangedHits(dims))].USD

\* scripts/providers/aws.fetch.js: unit starts with "hrs", USD present,
\* Number.isFinite(price) && price > 0
HourlyHits(dims) ==
  {k \in DOMAIN dims : /\ StartsWith(ToLower(dims[k].unit), <<"h","r","s">>)
                        /\ dims[k].USD # UNDEF
                        /\ dims[k].USD # Infinity /\ dims[k].USD > 0}
\* variant that returns the last such dimension
pickHourlyUsdLast(dims) ==
  IF HourlyHits(dims) = {} THEN NULL
  ELSE dims[CHOOSE k \in HourlyHits(dims) : \A j \in HourlyHits(dims) : j <= k].USD
pickHourlyUsd(dims) ==
  IF HourlyHits(dims) = {} THEN NULL ELSE dims[MinOf(HourlyHits(dims))].USD

\* `if (!price) continue` of fetch-prices.js
RangedKeeps(price) == price \notin {NULL, 0}
\* `if (!(price > 0)) continue` of aws.fetch.js
HourlyKeeps(price) == price # NULL /\ price > 0

MaxDims == 2
PriceDimensions ==
  [unit : {sHrs, sQuantity}, beginRange : {sZero, sHundred}, endRange : {sInf},
   description : {dOnDemand, dUpfront},
   USD : {UNDEF, 0, 0 - 5, 1, 2, Infinity}]
DimLists == UNION {[1..n -> PriceDimensions] : n \in 0..MaxDims}
AwsScripts == {"fetch-prices.js", "aws.fetch.js"}

\* one SKU of the loop over the products, its other filters passed
FetchAwsSku ==
  /\ norm = NormStart
  /\ \E dims \in DimLists, script \in AwsScripts :
       norm' = [op |-> "aws", script |-> script, dims |-> dims,
                price |-> IF script = "aws.fetch.js" THEN pickHourlyUsd(dims)
                          ELSE pickHourlyUsdRanged(dims),
                record |-> IF script = "aws.fetch.js"
                           THEN HourlyKeeps(pickHourlyUsd(dims))
                           ELSE RangedKeeps(pickHourlyUsdRanged(dims))]
  /\ UNCHANGED <<finderVars, dedupeVars, pipeVars, uiVars>>

NormNext ==
  \/ FetchAwsSku
  \/ FilterRetail
  \/ ClassifyAzure \/ ClassifyGcp \/ ClassifyGcpSeries \/ ClassifyAzureSku
  \/ NormalizeAzure \/ NormalizeGcp
  \/ NormDone

SpecNormalize == NormInit /\ [][NormNext]_vars

(* ------------------------------------------------------------------ *)
(* fetchWithRetry of the Azure fetch script                            *)
(* ------------------------------------------------------------------ *)

\* the default of `retries`, and the largest value a call is given here
DefaultRetries == 6
MaxRetries == 6

RECURSIVE Pow2(_)
Pow2(n) == IF n = 0 THEN 1 ELSE 2 * Pow2(n - 1)
\* 1500 * Math.pow(2, i)
BackoffMs(i) == 1500 * Pow2(i)

\* variant of the loop test that goes round once more
LoopGoesOnInclusive(i, retries) == i <= retries
\* `i < retries`
LoopGoesOn(i, retries) == i < retries

\* what one `await fetch(url)` can bring: an ok response whose body parses,
\* an ok response whose body does not, an HTTP error status, a thrown error
Answers == {"ok", "ok-bad-body", "http", "error"}

RetryCall(retries) ==
  [op |-> "retry", retries |-> retries, i |-> 0, pc |-> "loop",
   attempts |-> 0, warned |-> <<>>, waited |-> <<>>, body |-> 0]

\* fetchWithRetry(url, retries) is called
RetryInit ==
  /\ norm \in {RetryCall(retries) : retries \in 0..MaxRetries}
  /\ FinderIdle
  /\ DedupeIdle
  /\ PipeIdle
  /\ UiIdle

\* `for (let i = 0; i < retries; i++)`: the test, then the body or the throw
\* after the loop
RetryLoop ==
  /\ norm.pc = "loop"
  /\ norm' = [norm EXCEPT !.pc = IF LoopGoesOn(norm.i, norm.retries)
                                 THEN "fetch" ELSE "thrown"]
  /\ UNCHANGED <<finderVars, dedupeVars, pipeVars, uiVars>>

\* `await fetch(url)` settles: `return res.json()` for an ok response (the
\* promise is returned without await, so a body that does not parse rejects
\* the call), console.warn for a status or a thrown error
RetryFetch ==
  /\ norm.pc = "fetch"
  /\ \E answer \in Answers :
       norm' = [norm EXCEPT
                  !.attempts = @ + 1,
                  !.pc = IF answer = "ok" THEN "returned"
                         ELSE IF answer = "ok-bad-body" THEN "rejected"
                         ELSE "backoff",
                  !.body = IF answer = "ok" THEN norm.attempts + 1 ELSE @,
                  !.warned = IF answer \in {"http", "error"}
                             THEN Append(@, answer) ELSE @]
  /\ UNCHANGED <<finderVars, dedupeVars, pipeVars, uiVars>>

\* the timer of the backoff fires, then `i++`
RetryBackoff ==
  /\ norm.pc = "backoff"
  /\ norm' = [norm EXCEPT !.waited = Append(@, BackoffMs(norm.i)),
                          !.i = @ + 1, !.pc = "loop"]
  /\ UNCHANGED <<finderVars, dedupeVars, pipeVars, uiVars>>

RetryNext == RetryLoop \/ RetryFetch \/ RetryBackoff

\* every fetch settles (the runtime times a silent server out) and every
\* timer fires
SpecRetry ==
  /\ RetryInit /\ [][RetryNext]_vars
  /\ WF_vars(RetryLoop) /\ WF_vars(RetryFetch) /\ WF_vars(RetryBackoff)

(* ------------------------------------------------------------------ *)
(* C14: classifier totality                                            *)
(* ------------------------------------------------------------------ *)

Families == {Str(sGeneral), Str(sCompute), Str(sMemory)}

\* C14 as stated: for every instance identifier, empty, missing and
\* malformed ones included, each provider's family classifier returns
\* general, compute, memory or null.
C14_ClassifierTotal ==
  norm.op = "classify" => norm.out \in Families \cup {JsNull}

\* C14 amended: the classifier of scripts/lib/azure.js returns general,
\* compute, memory or "other" and never null; the classifiers of
\* scripts/lib/gcp.js and scripts/fetch-prices.js return general, compute,
\* memory or null; each returns a value for every identifier.
C14_ClassifierTotalOther ==
  norm.op = "classify" =>
    IF norm.fn = "categorizeByInstanceName"
    THEN norm.out \in Families \cup {Str(sOther)}
    ELSE norm.out \in Families \cup {JsNull}

C14_Witness ==
  /\ norm.op = "classify"
  /\ norm.fn = "classifyGcpInstance"
  /\ norm.id = Str(idC2Cpu)
  /\ norm.out = Str(sCompute)

(* ------------------------------------------------------------------ *)
(* C15: categories of the records a normalizer writes                  *)
(* ------------------------------------------------------------------ *)

ThreeFamilies == {sGeneral, sCompute, sMemory}
Written == norm.op = "normalize" /\ norm.wrote
WrittenInstances == {norm.compute[i].instance : i \in DOMAIN norm.compute}

\* C15 as stated: every record a provider normalizer writes has category
\* general, compute or memory.
C15_OnlyThreeFamilies ==
  Written => \A i \in DOMAIN norm.compute :
               norm.compute[i].category \in ThreeFamilies

\* C15 amended: every record the GCP normalizer writes has category general,
\* compute or memory and no machine type its classifier leaves unclassified
\* is written; every record the Azure normalizer writes has the category
\* categorizeByInstanceName gives its name, which is general, compute,
\* memory or "other", and entries of the families A, B, L, M and N are
\* written with category "other".
C15_FamiliesOrOther ==
  Written =>
    IF norm.p = "gcp"
    THEN /\ \A i \in DOMAIN norm.compute :
              norm.compute[i].category \in ThreeFamilies
         /\ \A j \in DOMAIN norm.raw :
              classifyGcpByPrefix(GcpInstanceOf(norm.raw[j].machine_type)) = JsNull
                => GcpInstanceOf(norm.raw[j].machine_type) \notin WrittenInstances
    ELSE /\ \A i \in DOMAIN norm.compute :
              /\ norm.compute[i].category \in ThreeFamilies \cup {sOther}
              /\ norm.compute[i].category
                   = categorizeByInstanceName(norm.compute[i].instance)
         /\ \A j \in DOMAIN norm.raw :
              (norm.raw[j].instance = idB2s /\ norm.raw[j].unitPrice > 0)
                => \E i \in DOMAIN norm.compute :
                     /\ norm.compute[i].instance = idB2s
                     /\ norm.compute[i].category = sOther

C15_Witness ==
  /\ Written /\ norm.p = "azure"
  /\ \E i \in DOMAIN norm.compute : norm.compute[i].category = sOther
  /\ \E i \in DOMAIN norm.compute : norm.compute[i].category = sGeneral

(* ------------------------------------------------------------------ *)
(* C16: Azure candidates without usable specs                          *)
(* ------------------------------------------------------------------ *)

\* vcpu or ram null or missing
SpecsUnknown(x) == x.vcpu \in {NULL, UNDEF} \/ x.ram \in {NULL, UNDEF}

AzureCalled == call.made /\ provider = "azure" /\ call.res.ok

\* the candidate as the scan sees it, after the inference from the name
AzureCandidate(i) == AzureEnrich(call.before[i])

\* C16: in findBestAzure a candidate whose vcpu or ram is still null or
\* missing after the inference from the name is scored with the fixed
\* penalty 9999, and is returned only when no candidate of the candidate
\* set has usable vcpu and ram.
C16_UnknownSpecsLastResort ==
  AzureCalled =>
    /\ \A i \in call.res.pre :
         SpecsUnknown(AzureCandidate(i))
           => AzureScore2(AzureCandidate(i), call.req.vcpu, call.req.ram)
                >= 2 * 9999
    /\ SpecsUnknown(AzureCandidate(call.res.idx))
         => \A i \in call.res.pre : SpecsUnknown(AzureCandidate(i))

(* ------------------------------------------------------------------ *)
(* C17: records with os "Unknown" and the OS filter                    *)
(* ------------------------------------------------------------------ *)

\* the conditions of a finder's filter other than the one on the OS
PassesOtherFilters(p, x, r) ==
  IF p = "aws"
  THEN /\ isOnDemandShared(x)
       /\ IsFinite(x.vcpu) /\ IsFinite(x.ram) /\ IsFinite(x.pricePerHourUSD)
       /\ isAwsInFamily(x.instance, r.family)
  ELSE IF p = "azure"
  THEN isOnDemandShared(x) /\ azureFamilyMatch(x, r.family)
  ELSE /\ IsFinite(x.vcpu) /\ IsFinite(x.ram) /\ IsFinite(x.pricePerHourUSD)
       /\ gcpFamilyMatch(x, r.family)

\* the Unknown-OS records of the list of the last call that pass them
UnknownEligible ==
  {i \in DOMAIN call.before :
     /\ call.before[i].os = sUnknown
     /\ PassesOtherFilters(provider, call.before[i], call.req)}

LastCandidates == CandidatesOf(provider, call.before, call.req)

\* C17 as stated: in every finder a record whose os is "Unknown" and that
\* passes the other filters stays in the candidate set, whichever OS is
\* requested.
C17_UnknownNeverRemoved ==
  call.made => UnknownEligible \subseteq LastCandidates

\* C17 amended: findBestAzure keeps such a record whichever OS is requested;
\* findBestAws keeps it when Linux is requested and removes it when Windows
\* is requested; findBestGcp removes it for either requested OS.
C17_UnknownKeptByAzure ==
  call.made =>
    \A i \in UnknownEligible :
      i \in LastCandidates <=>
        \/ provider = "azure"
        \/ provider = "aws" /\ ToLower(call.req.os) = sLinuxLower

C17_Witness ==
  /\ call.made /\ provider = "azure"
  /\ call.req.os = sWindows
  /\ UnknownEligible # {}
  /\ \E i \in LastCandidates : call.before[i].os = sWindows
  /\ UnknownEligible \subseteq LastCandidates

(* ------------------------------------------------------------------ *)
(* C18: a finder's failure stays with its provider                     *)
(* ------------------------------------------------------------------ *)

Compared == ui.op = "compare"
FinderFails(p) ==
  ~findBest(p, ui.data[p], FinderRequest(ui.req, p)).ok

IsFlat(raw) == \A p \in LoadedProviders : IsArray(raw[p])
\* the wrapped shape: aws, azure and gcp are objects { meta, compute }
IsWrapped(raw) == \A p \in LoadedProviders : raw[p].t = "object"

\* the records the file holds for a provider
HeldBy(v) ==
  IF IsArray(v) THEN v.rows
  ELSE IF v.t = "object" /\ IsArray(v.compute) THEN v.compute.rows
  ELSE <<>>

C20_ThreeArraysAlways ==
  (AggregatorRan /\ step.wrote) => {"aws", "azure", "gcp"} \subseteq prices.has

(* ------------------------------------------------------------------ *)
(* C21: the three candidate sets of findBestAzure                      *)
(* ------------------------------------------------------------------ *)

\* the last call was findBestAzure on a list that is not empty
AzureTried == call.made /\ provider = "azure" /\ call.before # <<>>

SetStrict == AzureStrict(call.before, call.req.os, call.req.family)
SetOsOnly == AzureNoFamily(call.before, call.req.os)
SetFamilyOnly == AzureNoOs(call.before, call.req.family)
\* the on-demand records, whatever their OS and family
SetAnyOs == {i \in DOMAIN call.before : isOnDemandShared(call.before[i])}

FirstNonEmpty(A, B, C) == IF A # {} THEN A ELSE IF B # {} THEN B ELSE C

\* the set the call scored is the first non-empty of A, B, C; it fails with
\* the no-entries error exactly when the three are empty
ScoresFirstOf(A, B, C) ==
  /\ call.res.ok <=> FirstNonEmpty(A, B, C) # {}
  /\ call.res.ok => call.res.pre = FirstNonEmpty(A, B, C)
  /\ ~call.res.ok => call.res.err = "no-entries"

\* C21 as stated: findBestAzure tries (1) the records matching OS and family,
\* (2) the records matching the OS with the family dropped, (3) the records
\* with the OS ignored entirely, scores the first non-empty set and fails
\* with the no-entries error only when all three are empty.
C21_ThreeSetsOsIgnored ==
  AzureTried => ScoresFirstOf(SetStrict, SetOsOnly, SetAnyOs)

\* C21 amended: the third set is the records matching the family with the
\* OS ignored; the family constraint dropped in (2) applies again in (3).
C21_ThreeSetsFamilyKept ==
  AzureTried => ScoresFirstOf(SetStrict, SetOsOnly, SetFamilyOnly)

C21_Witness ==
  /\ AzureTried
  /\ call.req.family # <<>>
  /\ SetStrict = {} /\ SetOsOnly = {} /\ SetFamilyOnly # {}
  /\ call.res.ok /\ call.res.pre = SetFamilyOnly

(* ------------------------------------------------------------------ *)
(* C22: the category of a GCP machine type SERIES_CLASS_N              *)
(* ------------------------------------------------------------------ *)

GcpClassified ==
  /\ norm.op = "classify" /\ norm.fn = "classifyGcpInstance"
  /\ Truthy(norm.id)
  /\ ~StartsWith(ToLower(StringOf(norm.id)), sCustomDash)
  /\ GcpMatches(GcpToken(StringOf(norm.id)))

SeriesDecides(series) ==
  IF series \in GCP_SERIES_ALLOW.compute THEN Str(sCompute)
  ELSE IF series \in GCP_SERIES_ALLOW.memory THEN Str(sMemory)
  ELSE IF series \in GCP_SERIES_ALLOW.general THEN Str(sGeneral)
  ELSE JsNull

ClassDecides(tok) ==
  IF GcpClass(tok) = sHIGHCPU THEN Str(sCompute)
  ELSE IF GcpClass(tok) \in {sHIGHMEM, sULTRAMEM, sMEGAMEM} THEN Str(sMemory)
  ELSE SeriesDecides(GcpSeries(tok))

\* C22: classifyGcpInstance, for a token SERIES_CLASS_N, returns compute when
\* CLASS is highcpu and memory when CLASS is highmem, ultramem or megamem;
\* when CLASS is standard the series decides (general, compute or memory by
\* the allow-list holding it) and a series on no allow-list gives null.
C22_StandardBySeries ==
  GcpClassified => norm.out = ClassDecides(GcpToken(StringOf(norm.id)))

\* a standard machine type of a compute series is classified
C22_StandardComputeSeries ==
  /\ GcpClassified
  /\ norm.id = Str(idC2Std)
  /\ norm.out = Str(sGeneral)

(* ------------------------------------------------------------------ *)
(* C23: inferred against authoritative specs in findBestAzure          *)
(* ------------------------------------------------------------------ *)

NamedSpecs(i) == inferAzureCoresRamFromName(call.before[i].instance)
\* the list gives the record's vcpu and ram
Authoritative(i) == ~SpecsUnknown(call.before[i])
\* the list gives neither and the name gives both
Inferred(i) ==
  /\ call.before[i].vcpu = UNDEF /\ call.before[i].ram = UNDEF
  /\ NamedSpecs(i).vcpu # NULL /\ NamedSpecs(i).ram # NULL
SeenVcpu(i) == IF Inferred(i) THEN NamedSpecs(i).vcpu ELSE call.before[i].vcpu
SeenRam(i) == IF Inferred(i) THEN NamedSpecs(i).ram ELSE call.before[i].ram
\* |vcpu - wantVcpu| + |ram - wantRam|
SpecDistance(i) ==
  Abs(SeenVcpu(i) - call.req.vcpu) + Abs(SeenRam(i) - call.req.ram)
OsUnknown(i) == call.before[i].os = sUnknown
PriceOf(i) == call.before[i].pricePerHourUSD
Comparable(i) == i \in call.res.pre /\ (Inferred(i) \/ Authoritative(i))

Ahead(i, j) ==
  \/ SpecDistance(i) < SpecDistance(j)
  \/ /\ SpecDistance(i) = SpecDistance(j)
     /\ \/ ~OsUnknown(i) /\ OsUnknown(j)
        \/ /\ OsUnknown(i) = OsUnknown(j)
           /\ \/ PriceOf(i) < PriceOf(j)
              \/ PriceOf(i) = PriceOf(j) /\ i < j

InferredFrom == ui.op = "infer" /\ Truthy(ui.name)
LowerName == ToLower(StringOf(ui.name))
ParsedCores == CoreCount(LowerName, StdCoreHits(LowerName), DashCoreHits(LowerName))

\* C24 as stated: vcpu and ram are null together whenever the core count
\* cannot be parsed or the family has no ratio; otherwise vcpu is the parsed
\* core count and ram is cores times the ratio of the family.
C24_NullTogether ==
  /\ (ui.op = "infer" /\ ~Truthy(ui.name)) => ui.out = [vcpu |-> NULL, ram |-> NULL]
  /\ InferredFrom =>
       IF ParsedCores = NULL \/ RamPerCore(LowerName) = NULL
       THEN ui.out = [vcpu |-> NULL, ram |-> NULL]
       ELSE ui.out = [vcpu |-> ParsedCores, ram |-> ParsedCores * RamPerCore(LowerName)]

\* C24 amended: vcpu is the parsed core count, or null when none can be
\* parsed, whatever the family; ram is cores times the ratio of the family
\* (D 4, F 2, E 8, B 4, M 16) when a non-zero core count was parsed and the
\* family has a ratio, and null otherwise; a name that is empty or not a
\* string gives null for both.
C24_CoresWithoutRam ==
  /\ (ui.op = "infer" /\ ~Truthy(ui.name)) => ui.out = [vcpu |-> NULL, ram |-> NULL]
  /\ InferredFrom =>
       /\ ui.out.vcpu = ParsedCores
       /\ ui.out.ram = IF ParsedCores \notin {NULL, 0} /\ RamPerCore(LowerName) # NULL
                       THEN ParsedCores * RamPerCore(LowerName)
                       ELSE NULL

\* a name of a family without ratio gives its cores and no ram
C24_Witness ==
  /\ ui.op = "infer"
  /\ ui.name = Str(nH8)
  /\ ui.out = [vcpu |-> 8, ram |-> NULL]

(* ------------------------------------------------------------------ *)
(* C25: the price dimension an AWS SKU is priced from                  *)
(* ------------------------------------------------------------------ *)

AwsPriced == norm.op = "aws"
\* unit hours, range 0 to Inf, no reserved, upfront or dedicated charge named
Qualifies(dim) ==
  /\ ToLower(dim.unit) = <<"h","r","s">>
  /\ dim.beginRange = sZero /\ dim.endRange = sInf
  /\ \A w \in {<<"r","e","s","e","r","v","e","d">>, <<"u","p","f","r","o","n","t">>,
                <<"d","e","d","i","c","a","t","e","d">>} :
       ~Includes(ToLower(dim.description), w)
UsablePrice(usd) == usd \notin {UNDEF, NULL, Infinity} /\ usd > 0
FirstIn(S) == CHOOSE k \in S : \A j \in S : k <= j

\* C25 as stated: the price of a record is that of a dimension whose unit is
\* hours, whose range is 0 to Inf and whose description names no reserved,
\* upfront or dedicated-host charge; when no dimension qualifies, or the
\* price is zero, negative or non-finite, the SKU yields no record.
C25_QualifyingDimension ==
  AwsPriced =>
    /\ norm.record =>
         \E k \in DOMAIN norm.dims :
           Qualifies(norm.dims[k]) /\ norm.dims[k].USD = norm.price
    /\ (\A k \in DOMAIN norm.dims : ~Qualifies(norm.dims[k])) => ~norm.record
    /\ ~UsablePrice(norm.price) => ~norm.record

\* C25 amended: scripts/fetch-prices.js takes the first dimension whose unit
\* is hours, range 0 to Inf, description clean and USD a number, and writes a
\* record unless there is none or its price is zero (a negative or infinite
\* price is written); scripts/providers/aws.fetch.js takes the first
\* dimension whose unit is hours and whose USD is finite and above zero,
\* whatever its range and description, and writes a record iff there is one.
C25_FirstHourlyDimension ==
  AwsPriced =>
    IF norm.script = "fetch-prices.js"
    THEN /\ norm.record <=>
              /\ \E k \in DOMAIN norm.dims :
                    Qualifies(norm.dims[k]) /\ norm.dims[k].USD # UNDEF
              /\ norm.price # 0
         /\ norm.record =>
              norm.price =
                norm.dims[FirstIn({k \in DOMAIN norm.dims :
                    Qualifies(norm.dims[k]) /\ norm.dims[k].USD # UNDEF})].USD
    ELSE /\ norm.record <=>
              \E k \in DOMAIN norm.dims :
                /\ ToLower(norm.dims[k].unit) = <<"h","r","s">>
                /\ UsablePrice(norm.dims[k].USD)
         /\ norm.record =>
              norm.price =
                norm.dims[FirstIn({k \in DOMAIN norm.dims :
                    /\ ToLower(norm.dims[k].unit) = <<"h","r","s">>
                    /\ UsablePrice(norm.dims[k].USD)})].USD

\* aws.fetch.js prices a SKU from an upfront fee although a clean hourly
\* dimension follows
C25_Witness ==
  /\ AwsPriced /\ norm.script = "aws.fetch.js" /\ norm.record
  /\ Len(norm.dims) = 2
  /\ norm.dims[1].description = dUpfront /\ norm.dims[1].USD = 2
  /\ Qualifies(norm.dims[2]) /\ norm.dims[2].USD = 1
  /\ norm.price = 2

(* ------------------------------------------------------------------ *)
(* C26: what the Azure normalizer leaves out                           *)
(* ------------------------------------------------------------------ *)

RetailFiltered == norm.op = "retail"
NamesOf(it) == <<it.productName, it.skuName, it.meterName>>
\* a product, SKU or meter name contains the word, in any case
Named(it, w) == \E k \in 1..3 : Includes(ToLower(NamesOf(it)[k]), w)
NotPayg(it) ==
  \/ ~Includes(ToLower(it.unitOfMeasure), <<"h","o","u","r">>)
  \/ \E w \in {sSpot, sLowPriority, sReserved, sSavingsPlan, <<"p","r","o","m","o">>, <<"d","e","v","t","e","s","t">>} : Named(it, w)

\* C26: no record of the Azure normalizer output comes from a raw entry whose
\* billing unit is not hourly or whose product, SKU or meter name contains,
\* in any case, spot, low priority, reserved, savings plan, promo or devtest.
C26_OnlyPaygHourly ==
  RetailFiltered =>
    \A i \in DOMAIN norm.cheapest : ~NotPayg(norm.raw[norm.cheapest[i].from])

\* the script without the filter writes the record of a Spot entry
C26_SpotWritten ==
  /\ RetailFiltered /\ norm.script = "providers/azure.fetch.js" /\ norm.wrote
  /\ \E i \in DOMAIN norm.cheapest :
       norm.raw[norm.cheapest[i].from].skuName = kSpot

(* ------------------------------------------------------------------ *)
(* C27: ties in dedupeCheapestByKey                                    *)
(* ------------------------------------------------------------------ *)

Deduped == cheapest.made /\ kind = "map"

\* C27: when several rows share a key and the minimum price,
\* dedupeCheapestByKey keeps the one that comes first in the input; the
\* input list and its rows are left unmodified.
C27_FirstOfTiesKept ==
  Deduped =>
    /\ cheapest.list = rows
    /\ \A o \in DOMAIN cheapest.out :
         /\ cheapest.from[o] \in DOMAIN rows
         /\ cheapest.out[o] = rows[cheapest.from[o]]
         /\ \A i \in RowsWithKey(rows, kind, keyFn(kind, cheapest.out[o])) :
              \/ rows[i].pricePerHourUSD > cheapest.out[o].pricePerHourUSD
              \/ /\ rows[i].pricePerHourUSD = cheapest.out[o].pricePerHourUSD
                 /\ cheapest.from[o] <= i

\* three rows of one key, the last two at the minimum price
C27_Witness ==
  /\ Deduped
  /\ Len(rows) = 3 /\ Len(cheapest.out) = 1
  /\ rows[1].pricePerHourUSD = 2
  /\ rows[2].pricePerHourUSD = 1 /\ rows[3].pricePerHourUSD = 1
  /\ cheapest.from[1] = 2

(* ------------------------------------------------------------------ *)
(* C28: fetchWithRetry terminates                                      *)
(* ------------------------------------------------------------------ *)

RetryEnded == norm.pc \in {"returned", "rejected", "thrown"}

RetryBounded ==
  /\ norm.attempts <= norm.retries
  /\ norm.pc = "returned" =>
       /\ norm.body = norm.attempts
       /\ Len(norm.warned) = norm.attempts - 1
  /\ norm.pc = "thrown" =>
       /\ norm.attempts = norm.retries
       /\ Len(norm.warned) = norm.retries
  /\ (norm.attempts = norm.retries /\ Len(norm.warned) = norm.retries)
       => norm.pc \in {"backoff", "loop", "thrown"}

RateFields(block) == DOMAIN block \ {"region"}

\* C29: after any sequence of loadPricesAndMeta calls STORAGE_CFG still holds
\* every default Azure SSD and HDD band size and every default per-GB rate
\* field; a load never removes an entry that was there before it, and a
\* file with no storage block leaves STORAGE_CFG unchanged.
C29_DefaultsKept ==
  /\ DOMAIN DefaultSsd \subseteq DOMAIN ui.cfg.azure.ssd_monthly
  /\ DOMAIN DefaultHdd \subseteq DOMAIN ui.cfg.azure.hdd_monthly
  /\ DOMAIN ui.before \subseteq DOMAIN ui.cfg
  /\ DOMAIN ui.before.azure.ssd_monthly \subseteq DOMAIN ui.cfg.azure.ssd_monthly
  /\ DOMAIN ui.before.azure.hdd_monthly \subseteq DOMAIN ui.cfg.azure.hdd_monthly
  /\ \A p \in DOMAIN ui.before : DOMAIN ui.before[p] \subseteq DOMAIN ui.cfg[p]
  /\ ~ui.storage.has => ui.cfg = ui.before

\* the second definition has replaced the SSD table by the table of the file
C29_TableReplaced ==
  /\ ui.version = "replace" /\ ui.loads > 0
  /\ DOMAIN ui.cfg.azure.ssd_monthly = {4}

(* ------------------------------------------------------------------ *)
(* C30: overlapping compare() runs                                     *)
(* ------------------------------------------------------------------ *)

AllRendered == \A k \in DOMAIN ui.runs : ui.runs[k].pc = "done"
LastStarted == ui.runs[Len(ui.runs)]

\* C30: when compare() runs overlap, the cards shown once all have finished
\* reflect the inputs read by the run that started last, and the Compare
\* button is enabled again only after every run has finished.
C30_LastStartedWins ==
  /\ (ui.overlapped /\ AllRendered) => ui.cards = CardsOf(LastStarted.family)
  /\ ~ui.disabled => \A k \in DOMAIN ui.runs : ~InFlight(ui.runs[k])

\* both runs have finished and the cards show the family of the first
C30_FirstStartedShown ==
  /\ Len(ui.runs) = 2 /\ ui.overlapped /\ AllRendered
  /\ ui.runs[1].family = "" /\ ui.runs[2].family = "compute"
  /\ ui.cards = CardsOf("")

====
